---- MODULE Spec2Model ----
(***************************************************************************)
(* Risk / circuit-breaker core of lark-proxyss (hf-spaces).                *)
(*                                                                         *)
(* Units.  Money, sizes and prices are integers.  Every ratio the code     *)
(* keeps as a float fraction (0.30, 0.20, ...) is kept here in percent     *)
(* (30, 20, ...), and a comparison  a / b > pct  is evaluated exactly as   *)
(* a * 100 > pct * b  (b > 0).  Time is in whole seconds; datetime.now()   *)
(* is the variable now, advanced by Tick (one second) and NextDay (one     *)
(* day): timedelta.seconds is the seconds component of a difference, that  *)
(* is the difference modulo one day.                                       *)
(*                                                                         *)
(* EnhancedRiskManager.__init__ names the breaker enum CircuitBreaker      *)
(* where the module defines CircuitBreakerState; the operations below are  *)
(* those of a manager in which that name resolves to CircuitBreakerState.  *)
(***************************************************************************)
EXTENDS Integers, Sequences, FiniteSets, TLC

VARIABLES
    now,                            \* datetime.now(), seconds
    positions,                      \* EnhancedRiskManager.positions: token_id -> Position
    daily_pnl,
    peak_pnl,
    circuit_breaker_state,
    circuit_breaker_triggered_at,
    volatility_paused_until,
    last_cancel_time,
    last_trade_time,
    alerts,                         \* EnhancedRiskManager.alerts
    highest_price,                  \* history: highest price appended to price_history since the position was opened
    loss_breached,                  \* history: daily_pnl < -max_daily_loss has held since the last reset_circuit_breaker
    ret,                            \* the last call and what it returned
    hedges_executed,                \* UnifiedMarketMakerStrategy.stats["hedges_executed"]
    auto_execute,                   \* CrossPlatformArbitrage.config.auto_execute
    executed_trades,                \* CrossPlatformArbitrage.executed_trades
    status,                         \* CircuitBreaker.status
    triggered_at,                   \* CircuitBreaker.triggered_at
    trigger_reason,                 \* CircuitBreaker.trigger_reason
    trigger_count,                  \* CircuitBreaker.trigger_count
    _resume_at,                     \* CircuitBreaker._resume_at
    hot_wallet_balance,             \* TradeLimiter.hot_wallet_balance
    limiter_daily_pnl,              \* TradeLimiter.daily_pnl
    peak_value,                     \* TradeLimiter.peak_value
    current_drawdown,               \* TradeLimiter.current_drawdown, a fraction [num, den]
    daily_trades,                   \* TradeLimiter.daily_trades
    security_log,                   \* TransactionSecurity.security_log, the event types
    stop_in_force,                  \* history: emergency_stop was called and reset has not been since
    threads,                        \* threads calling the risk manager: where each is in its call, and its locals
    realized,                       \* history: the pnl of each position popped by close_position, in order
    mm_positions,                   \* UnifiedMarketMakerStrategy.positions: market_id -> Position
    active_orders,                  \* UnifiedMarketMakerStrategy.active_orders
    filled_amounts,                      \* history: yes / no amounts of each market as its fills left them
    inv_positions,                  \* SmartInventoryManager.positions: token_id -> InventoryPosition
    inv_price_history,              \* SmartInventoryManager.price_history
    hedge_history,                  \* SmartInventoryManager.hedge_history
    markets,                        \* CrossPlatformArbitrage.markets: platform -> its markets, in insertion order
    opportunities,                  \* CrossPlatformArbitrage.opportunities
    spread_history,                 \* DynamicSpreadCalculator.spread_history: market_id -> spreads
    adjustment_count,               \* DynamicSpreadCalculator.adjustment_count
    total_adjustments,              \* DynamicSpreadCalculator.total_adjustments
    rm_positions,                   \* RiskManager.positions: token_id -> Position
    rm_daily_pnl,                   \* RiskManager.daily_pnl
    rm_alerts,                      \* RiskManager.alerts
    sys_modules,                    \* sys.modules: the modules of the core package imported so far
    orders,                         \* ExecutionEngine.orders: order_id -> Order
    exec_positions,                 \* ExecutionEngine.positions: market_id -> sizes and average prices
    daily_stats,                    \* ExecutionEngine.daily_stats
    exec_last_trade_time,           \* ExecutionEngine.last_trade_time
    circuit_breaker_active,         \* ExecutionEngine.circuit_breaker_active
    enhanced_risk_manager           \* core.enhanced_risk_manager.enhanced_risk_manager: << >> until bound, then <<the singleton>>

riskVars == <<positions, daily_pnl, peak_pnl, circuit_breaker_state,
              circuit_breaker_triggered_at, volatility_paused_until,
              last_cancel_time, last_trade_time, alerts, highest_price,
              loss_breached>>
arbVars == <<markets, opportunities>>
stratVars == <<hedges_executed, auto_execute, executed_trades, arbVars>>
breakerVars == <<status, triggered_at, trigger_reason, trigger_count, _resume_at>>
limiterVars == <<hot_wallet_balance, limiter_daily_pnl, peak_value,
                 current_drawdown, daily_trades>>
secVars == <<breakerVars, limiterVars, security_log, stop_in_force>>
concVars == <<threads, realized>>
mmVars == <<mm_positions, active_orders, filled_amounts>>
invVars == <<inv_positions, inv_price_history, hedge_history>>
spreadVars == <<spread_history, adjustment_count, total_adjustments>>
coreVars == <<rm_positions, rm_daily_pnl, rm_alerts, sys_modules, enhanced_risk_manager>>
execVars == <<orders, exec_positions, daily_stats, exec_last_trade_time,
              circuit_breaker_active>>
restVars == <<spreadVars, coreVars, execVars>>
exceptSpread == <<concVars, mmVars, invVars, coreVars, execVars>>
exceptCore == <<concVars, mmVars, invVars, spreadVars, execVars>>
exceptExec == <<concVars, mmVars, invVars, spreadVars, coreVars>>
extVars == <<concVars, mmVars, invVars, restVars>>
vars == <<now, riskVars, stratVars, secVars, extVars, ret>>

----------------------------------------------------------------------------
(* Bounds of the model *)

MaxDays == 1                        \* NextDay is taken at most this often
MaxAlerts == 2                      \* longest alert log explored
PnlCap == 360                       \* |daily_pnl| explored
MaxHedges == 2                      \* hedges_executed explored
MaxExecuted == 1                    \* executed_trades explored
MaxTriggers == 2                    \* trigger_count explored
MaxTrades == 1                      \* longest daily_trades explored
MaxCloses == 3                      \* close_position calls by the threads
MaxFills == 2                       \* fills of a market explored
MaxLog == 4                         \* longest security_log explored
MaxYesSize == 400                   \* |yes_size| of a position explored
Epoch == 100                        \* time.time() when the model starts, seconds
MaxPending == 2                     \* approved validations not yet recorded: the callers at work
MaxVolumeLog == 108                 \* longest security_log explored by the callers

(* RiskConfig of the manager under check: the time windows are scaled to a *)
(* few seconds (the dataclass defaults are 3600, 300, 4 and 10).           *)
circuit_breaker_cooldown == 3
volatility_pause_duration == 2
cooldown_after_cancel == 1
cooldown_after_trade == 1

(* RiskConfig defaults *)
max_position_size == 100
max_daily_loss == 50
max_drawdown == 20                  \* percent
stop_loss_pct == 30                 \* percent
take_profit_pct == 20               \* percent
trailing_stop_pct == 10             \* percent
circuit_breaker_threshold == 10     \* percent
volatility_threshold == 2           \* percent
trailing_activation_pct == 5        \* percent, the literal 0.05 of update_position

(* UnifiedMarketMakerConfig and CrossPlatformConfig defaults *)
tolerance == 5                      \* percent
min_hedge_size == 10
max_hedge_size == 500
max_position_usd == 500
require_confirm == TRUE

(* LimitConfig defaults; its circuit_breaker_cooldown (3600) is scaled *)
max_single_trade_usd == 100
max_single_trade_pct == 10          \* percent
max_daily_trades == 100
max_daily_volume_usd == 5000
max_daily_volume_pct == 50          \* percent
max_daily_loss_usd == 100
max_daily_loss_pct == 5             \* percent
max_drawdown_pct == 20              \* percent
limit_circuit_breaker_threshold == 10   \* percent, LimitConfig.circuit_breaker_threshold
limit_circuit_breaker_cooldown == 2     \* LimitConfig.circuit_breaker_cooldown
initial_hot_wallet_balance == 1000

SecondsPerDay == 86400              \* timedelta.seconds wraps at one day
MaxSec == circuit_breaker_cooldown

None == 0 - 1                       \* an Optional[datetime] that is None

NORMAL == "normal"
WARNING == "warning"
TRIGGERED == "triggered"
COOLDOWN == "cooldown"
DISABLED == "disabled"

OPEN == "open"
HALF_OPEN == "half_open"
CLOSED == "closed"

Tokens == {"tokA"}
OpenSizes == {60}
EntryPrices == {100}
Prices == {70, 99, 106, 120}
CheckSizes == {100, 101}

Threads == {1, 2}
Markets == {"m1"}

\* a thread that is in no call
IdleThread == [pc |-> "idle", token_id |-> "", position |-> << >>, loaded |-> 0]

----------------------------------------------------------------------------
(* Values *)

Ret(op, ok, reason, arg) ==
    [op |-> op, ok |-> ok, reason |-> reason, arg |-> arg, token |-> ""]
RetT(op, token_id, ok, reason) ==
    [op |-> op, ok |-> ok, reason |-> reason, arg |-> 0, token |-> token_id]

\* Platform, in the order of the enum
PlatformOrder == <<"polymarket", "predict_fun", "probable", "kalshi">>
Platform == {PlatformOrder[i] : i \in DOMAIN PlatformOrder}

RiskAlert(level, action) == [level |-> level, action |-> action]
StopLossAlert == RiskAlert("high", "CLOSE_POSITION")
TakeProfitAlert == RiskAlert("low", "TAKE_PROFIT")
TrailingStopAlert == RiskAlert("medium", "CLOSE_POSITION")
CircuitBreakerAlert == RiskAlert("critical", "STOP_ALL_TRADING")
NoAlert == RiskAlert("none", "NONE")

Position(side, size, price) ==
    [side |-> side, size |-> size, entry_price |-> price, current_price |-> price]

pnl(p) == (p.current_price - p.entry_price) * p.size

\* pnl / (entry_price * size) if entry_price > 0 else 0, as the fraction num / den (size > 0)
pnl_pct(p) ==
    IF p.entry_price > 0
    THEN [num |-> pnl(p), den |-> p.entry_price * p.size]
    ELSE [num |-> 0, den |-> 1]

\* timedelta.seconds of the difference later - earlier
Seconds(later, earlier) == (later - earlier) % SecondsPerDay

Max(a, b) == IF a >= b THEN a ELSE b
Abs(a) == IF a >= 0 THEN a ELSE 0 - a

\* a float ratio num / den, kept exact
Fraction(num, den) == IF num = 0 THEN [num |-> 0, den |-> 1]
                                 ELSE [num |-> num, den |-> den]

\* fraction >= pct / 100
AtLeastPct(fraction, pct) == fraction.num * 100 >= pct * fraction.den

Put(f, k, v) == [x \in DOMAIN f \cup {k} |-> IF x = k THEN v ELSE f[x]]
Remove(f, k) == [x \in DOMAIN f \ {k} |-> f[x]]

----------------------------------------------------------------------------
(* EnhancedRiskManager *)

\* mutant of _can_attempt_recovery: recovery one second early
_can_attempt_recovery_early ==
    IF circuit_breaker_triggered_at = None
    THEN FALSE
    ELSE Seconds(now, circuit_breaker_triggered_at) >= circuit_breaker_cooldown - 1

\* (now - triggered_at).seconds >= cooldown; False while no trip is recorded
_can_attempt_recovery ==
    IF circuit_breaker_triggered_at = None
    THEN FALSE
    ELSE Seconds(now, circuit_breaker_triggered_at) >= circuit_breaker_cooldown

\* the rejection conditions of check_can_trade, in the order the code tests them
volatility_paused ==
    volatility_paused_until # None /\ now < volatility_paused_until

in_trade_cooldown ==
    last_trade_time # None /\ Seconds(now, last_trade_time) < cooldown_after_trade

\* mutant of over_position_limit: the cap off by one
over_position_limit_lax(size) == size > max_position_size + 1

over_position_limit(size) == size > max_position_size

daily_loss_exceeded == daily_pnl < 0 - max_daily_loss

drawdown_exceeded ==
    peak_pnl > 0 /\ (peak_pnl - daily_pnl) * 100 > max_drawdown * peak_pnl

_trigger_circuit_breaker ==
    /\ circuit_breaker_state' = OPEN
    /\ circuit_breaker_triggered_at' = now
    /\ alerts' = Append(alerts, CircuitBreakerAlert)
    /\ Len(alerts') <= MaxAlerts

check_can_trade(size) ==
    IF circuit_breaker_state = OPEN /\ ~_can_attempt_recovery
    THEN /\ ret' = Ret("check_can_trade", FALSE, "breaker", size)
         /\ UNCHANGED <<now, riskVars, stratVars, secVars, extVars>>
    ELSE LET entered == IF circuit_breaker_state = OPEN
                        THEN HALF_OPEN
                        ELSE circuit_breaker_state
             early == IF volatility_paused THEN "volatility"
                      ELSE IF in_trade_cooldown THEN "cooldown"
                      ELSE IF over_position_limit(size) THEN "size"
                      ELSE "pass"
         IN  IF early # "pass"
             THEN /\ circuit_breaker_state' = entered
                  /\ ret' = Ret("check_can_trade", FALSE, early, size)
                  /\ UNCHANGED <<now, positions, daily_pnl, peak_pnl,
                                 circuit_breaker_triggered_at, volatility_paused_until,
                                 last_cancel_time, last_trade_time, alerts,
                                 highest_price, loss_breached, stratVars, secVars, extVars>>
             ELSE IF daily_loss_exceeded \/ drawdown_exceeded
             THEN /\ _trigger_circuit_breaker
                  /\ ret' = Ret("check_can_trade", FALSE,
                                IF daily_loss_exceeded THEN "daily_loss" ELSE "drawdown",
                                size)
                  /\ UNCHANGED <<now, positions, daily_pnl, peak_pnl,
                                 volatility_paused_until, last_cancel_time,
                                 last_trade_time, highest_price, loss_breached, stratVars, secVars, extVars>>
             ELSE /\ circuit_breaker_state' = entered
                  /\ ret' = Ret("check_can_trade", TRUE, "OK", size)
                  /\ UNCHANGED <<now, positions, daily_pnl, peak_pnl,
                                 circuit_breaker_triggered_at, volatility_paused_until,
                                 last_cancel_time, last_trade_time, alerts,
                                 highest_price, loss_breached, stratVars, secVars, extVars>>

check_can_cancel ==
    /\ ret' = IF last_cancel_time # None
                 /\ Seconds(now, last_cancel_time) < cooldown_after_cancel
              THEN Ret("check_can_cancel", FALSE, "cooldown", 0)
              ELSE Ret("check_can_cancel", TRUE, "OK", 0)
    /\ UNCHANGED <<now, riskVars, stratVars, secVars, extVars>>

open_position(token_id, side, size, price) ==
    /\ positions' = Put(positions, token_id, Position(side, size, price))
    /\ highest_price' = Put(highest_price, token_id, price)
    /\ last_trade_time' = now
    /\ ret' = RetT("open_position", token_id, TRUE, "position")
    /\ UNCHANGED <<now, daily_pnl, peak_pnl, circuit_breaker_state,
                   circuit_breaker_triggered_at, volatility_paused_until,
                   last_cancel_time, alerts, loss_breached, stratVars, secVars, extVars>>

\* the new volatility_paused_until after a move old_price -> new_price
_check_volatility(old_price, new_price) ==
    IF old_price = 0
    THEN volatility_paused_until
    ELSE IF Abs(new_price - old_price) * 100 > volatility_threshold * old_price
         THEN now + volatility_pause_duration
         ELSE volatility_paused_until

stop_loss_hit(p) ==
    pnl_pct(p).num * 100 <= (0 - stop_loss_pct) * pnl_pct(p).den

take_profit_hit(p) ==
    pnl_pct(p).num * 100 >= take_profit_pct * pnl_pct(p).den

\* pnl_pct > 0.05 and
\* current_price < entry_price * (1 + pnl_pct - trailing_stop_pct), times 100 * den
trailing_stop_hit(p) ==
    /\ pnl_pct(p).num * 100 > trailing_activation_pct * pnl_pct(p).den
    /\ p.current_price * 100 * pnl_pct(p).den
         < p.entry_price * (100 * pnl_pct(p).den + 100 * pnl_pct(p).num
                            - trailing_stop_pct * pnl_pct(p).den)

\* the alert update_position raises for the position as updated
position_alert(p) ==
    IF stop_loss_hit(p) THEN StopLossAlert
    ELSE IF take_profit_hit(p) THEN TakeProfitAlert
    ELSE IF trailing_stop_hit(p) THEN TrailingStopAlert
    ELSE NoAlert

update_position(token_id, current_price) ==
    IF token_id \notin DOMAIN positions
    THEN /\ ret' = RetT("update_position", token_id, FALSE, "no_position")
         /\ UNCHANGED <<now, riskVars, stratVars, secVars, extVars>>
    ELSE LET old_price == positions[token_id].current_price
             position == [positions[token_id] EXCEPT !.current_price = current_price]
             alert == position_alert(position)
         IN  /\ positions' = [positions EXCEPT ![token_id] = position]
             /\ highest_price' = [highest_price EXCEPT
                                    ![token_id] = Max(@, current_price)]
             /\ volatility_paused_until' = _check_volatility(old_price, current_price)
             /\ alerts' = IF alert = NoAlert THEN alerts ELSE Append(alerts, alert)
             /\ Len(alerts') <= MaxAlerts
             /\ ret' = RetT("update_position", token_id, alert # NoAlert, alert.level)
             /\ UNCHANGED <<now, daily_pnl, peak_pnl, circuit_breaker_state,
                            circuit_breaker_triggered_at, last_cancel_time,
                            last_trade_time, loss_breached, stratVars, secVars, extVars>>

\* mutant of updated_peak_pnl: the peak follows daily_pnl down
updated_peak_pnl_follows(new_pnl) == new_pnl

\* max(self.peak_pnl, self.daily_pnl) with daily_pnl already updated
updated_peak_pnl(new_pnl) == Max(peak_pnl, new_pnl)

\* mutant of loss_trips_breaker: a gain of the same size trips it too
loss_trips_breaker_on_gain(new_pnl) ==
    Abs(new_pnl) * 100 > circuit_breaker_threshold * max_daily_loss

\* daily_pnl < -circuit_breaker_threshold * max_daily_loss, times 100
loss_trips_breaker(new_pnl) ==
    new_pnl * 100 < 0 - circuit_breaker_threshold * max_daily_loss

close_position(token_id) ==
    IF token_id \notin DOMAIN positions
    THEN /\ ret' = RetT("close_position", token_id, FALSE, "no_position")
         /\ UNCHANGED <<now, riskVars, stratVars, secVars, extVars>>
    ELSE LET position == positions[token_id]
             new_pnl == daily_pnl + pnl(position)
         IN  /\ Abs(new_pnl) <= PnlCap
             /\ positions' = Remove(positions, token_id)
             /\ highest_price' = Remove(highest_price, token_id)
             /\ daily_pnl' = new_pnl
             /\ loss_breached' = (loss_breached \/ new_pnl < 0 - max_daily_loss)
             /\ peak_pnl' = updated_peak_pnl(new_pnl)
             /\ last_trade_time' = now
             /\ IF loss_trips_breaker(new_pnl)
                THEN _trigger_circuit_breaker
                ELSE UNCHANGED <<circuit_breaker_state, circuit_breaker_triggered_at,
                                 alerts>>
             /\ ret' = RetT("close_position", token_id, TRUE, "position")
             /\ UNCHANGED <<now, volatility_paused_until, last_cancel_time, stratVars, secVars, extVars>>

record_cancel ==
    /\ last_cancel_time' = now
    /\ ret' = Ret("record_cancel", TRUE, "", 0)
    /\ UNCHANGED <<now, positions, daily_pnl, peak_pnl, circuit_breaker_state,
                   circuit_breaker_triggered_at, volatility_paused_until,
                   last_trade_time, alerts, highest_price, loss_breached, stratVars, secVars, extVars>>

reset_circuit_breaker ==
    /\ circuit_breaker_state' = CLOSED
    /\ circuit_breaker_triggered_at' = None
    /\ loss_breached' = daily_loss_exceeded
    /\ ret' = Ret("reset_circuit_breaker", TRUE, "", 0)
    /\ UNCHANGED <<now, positions, daily_pnl, peak_pnl, volatility_paused_until,
                   last_cancel_time, last_trade_time, alerts, highest_price, stratVars, secVars, extVars>>

----------------------------------------------------------------------------
(* The clock *)

Tick ==
    /\ now % SecondsPerDay < MaxSec
    /\ now' = now + 1
    /\ ret' = Ret("tick", TRUE, "", 0)
    /\ UNCHANGED <<riskVars, stratVars, secVars, extVars>>

NextDay ==
    /\ now \div SecondsPerDay < MaxDays
    /\ now' = now + SecondsPerDay
    /\ ret' = Ret("tick", TRUE, "", 0)
    /\ UNCHANGED <<riskVars, stratVars, secVars, extVars>>

----------------------------------------------------------------------------
(* The risk manager on its own: any caller, any order of calls *)

Init ==
    /\ now = 0
    /\ positions = << >>
    /\ daily_pnl = 0
    /\ peak_pnl = 0
    /\ circuit_breaker_state = CLOSED
    /\ circuit_breaker_triggered_at = None
    /\ volatility_paused_until = None
    /\ last_cancel_time = None
    /\ last_trade_time = None
    /\ alerts = << >>
    /\ highest_price = << >>
    /\ loss_breached = FALSE
    /\ ret = Ret("init", TRUE, "", 0)
    /\ hedges_executed = 0
    /\ auto_execute = FALSE
    /\ executed_trades = << >>
    /\ status = NORMAL
    /\ triggered_at = None
    /\ trigger_reason = ""
    /\ trigger_count = 0
    /\ _resume_at = None
    /\ hot_wallet_balance = initial_hot_wallet_balance
    /\ limiter_daily_pnl = 0
    /\ peak_value = initial_hot_wallet_balance
    /\ current_drawdown = Fraction(0, 1)
    /\ daily_trades = << >>
    /\ security_log = << >>
    /\ stop_in_force = FALSE
    /\ threads = [t \in Threads |-> IdleThread]
    /\ realized = << >>
    /\ mm_positions = << >>
    /\ active_orders = << >>
    /\ markets = [platform \in Platform |-> << >>]
    /\ opportunities = << >>
    /\ filled_amounts = [m \in Markets |-> [yes |-> 0, no |-> 0, fills |-> 0]]
    /\ inv_positions = << >>
    /\ inv_price_history = << >>
    /\ hedge_history = << >>
    /\ spread_history = << >>
    /\ adjustment_count = 0
    /\ total_adjustments = 0
    /\ rm_positions = << >>
    /\ rm_daily_pnl = 0
    /\ rm_alerts = << >>
    /\ sys_modules = {}
    /\ enhanced_risk_manager = << >>
    /\ orders = << >>
    /\ exec_positions = << >>
    /\ daily_stats = [pnl |-> 0, trades |-> 0, wins |-> 0, losses |-> 0]
    /\ exec_last_trade_time = 0
    /\ circuit_breaker_active = FALSE

CheckCanTrade == \E size \in CheckSizes : check_can_trade(size)
CheckCanCancel == check_can_cancel
OpenPosition ==
    \E t \in Tokens, size \in OpenSizes, price \in EntryPrices :
        open_position(t, "BUY", size, price)
UpdatePosition == \E t \in Tokens, price \in Prices : update_position(t, price)
ClosePosition == \E t \in Tokens : close_position(t)
RecordCancel == record_cancel
ResetCircuitBreaker == reset_circuit_breaker

Next ==
    \/ CheckCanTrade
    \/ OpenPosition
    \/ UpdatePosition
    \/ ClosePosition
    \/ ResetCircuitBreaker
    \/ Tick
    \/ NextDay

Spec == Init /\ [][Next]_vars

----------------------------------------------------------------------------
(* UnifiedMarketMakerStrategy.handle_order_fill and                        *)
(* CrossPlatformArbitrage.execute_arbitrage, run beside the risk manager   *)

Min(a, b) == IF a <= b THEN a ELSE b

UnifiedAction(needs_action, action_type, shares, priority) ==
    [needs_action |-> needs_action, action_type |-> action_type,
     shares |-> shares, priority |-> priority]

\* the yes / no shares after the fill
post_fill(side, token, filled_shares, current_yes_shares, current_no_shares) ==
    [yes |-> IF token = "YES"
             THEN IF side = "BUY" THEN current_yes_shares + filled_shares
                                  ELSE current_yes_shares - filled_shares
             ELSE current_yes_shares,
     no  |-> IF token = "YES"
             THEN current_no_shares
             ELSE IF side = "BUY" THEN current_no_shares + filled_shares
                                  ELSE current_no_shares - filled_shares]

\* deviation > tolerance, deviation = |yes - no| / (total / 2) if total / 2 > 0 else 0
deviation_exceeds(yes_shares, no_shares) ==
    /\ yes_shares + no_shares > 0
    /\ Abs(yes_shares - no_shares) * 2 * 100 > tolerance * (yes_shares + no_shares)

hedge_type_sell(yes_heavy) == IF yes_heavy THEN "SELL_YES" ELSE "SELL_NO"
hedge_type(yes_heavy) == IF yes_heavy THEN "BUY_NO" ELSE "BUY_YES"

hedge_shares_uncapped(excess) == excess
hedge_shares(excess) == Min(excess, max_hedge_size)

\* the UnifiedAction handle_order_fill returns
hedge_action(side, token, filled_shares, current_yes_shares, current_no_shares) ==
    LET new == post_fill(side, token, filled_shares,
                         current_yes_shares, current_no_shares)
        total_shares == new.yes + new.no
    IN  IF deviation_exceeds(new.yes, new.no) /\ total_shares >= min_hedge_size
        THEN UnifiedAction(TRUE, hedge_type(new.yes > new.no),
                           hedge_shares(Abs(new.yes - new.no)), "URGENT")
        ELSE UnifiedAction(FALSE, "NONE", 0, "NORMAL")

\* filled_amounts, the history of the fills, is the caller's to update
handle_order_fill(side, token, filled_shares, current_yes_shares, current_no_shares) ==
    LET action == hedge_action(side, token, filled_shares,
                               current_yes_shares, current_no_shares)
        new == post_fill(side, token, filled_shares,
                         current_yes_shares, current_no_shares)
    IN  /\ hedges_executed' = IF action.needs_action
                              THEN hedges_executed + 1
                              ELSE hedges_executed
        /\ hedges_executed' <= MaxHedges
        /\ ret' = Ret("handle_order_fill", action.needs_action, action.action_type,
                      [shares |-> action.shares, yes |-> new.yes, no |-> new.no])
        /\ UNCHANGED <<now, riskVars, secVars, concVars, restVars, mm_positions, active_orders,
                       invVars, auto_execute, executed_trades, arbVars>>

\* opportunity.executed is True exactly for the opportunities in executed_trades
execute_arbitrage(opportunity_id, size_usd) ==
    IF ~auto_execute /\ require_confirm
    THEN /\ ret' = Ret("execute_arbitrage", FALSE, "confirm", 0)
         /\ UNCHANGED <<now, riskVars, stratVars, secVars, extVars>>
    ELSE LET size == IF size_usd # 0 THEN size_usd ELSE max_position_usd
         IN  /\ executed_trades' =
                    Append(executed_trades,
                           [opportunity_id |-> opportunity_id, size_usd |-> size])
             /\ Len(executed_trades') <= MaxExecuted
             /\ ret' = Ret("execute_arbitrage", TRUE, "executed", size)
             /\ UNCHANGED <<now, riskVars, secVars, extVars, hedges_executed, auto_execute,
                            arbVars>>

\* CrossPlatformArbitrage.update_config(auto_execute=value)
update_config(value) ==
    /\ auto_execute' = value
    /\ ret' = Ret("update_config", TRUE, "", 0)
    /\ UNCHANGED <<now, riskVars, secVars, extVars, hedges_executed, executed_trades,
                   arbVars>>

Shares == {0, 10}
FilledShares == {10}
Opportunities == {"intra_polymarket_m1"}
SizesUsd == {0, 100}

HandleOrderFill ==
    \E side \in {"BUY", "SELL"}, token \in {"YES", "NO"}, filled \in FilledShares,
       yes \in Shares, no \in Shares :
        handle_order_fill(side, token, filled, yes, no) /\ UNCHANGED filled_amounts
ExecuteArbitrage ==
    \E o \in Opportunities, size_usd \in SizesUsd : execute_arbitrage(o, size_usd)
UpdateConfig == \E value \in BOOLEAN : update_config(value)

\* the risk manager driven by a losing trade
GateOpenPosition == \E t \in Tokens : open_position(t, "BUY", 60, 100)
GateUpdatePosition == \E t \in Tokens : update_position(t, 99)
GateCheckCanTrade == check_can_trade(max_position_size)

NextGate ==
    \/ HandleOrderFill
    \/ ExecuteArbitrage
    \/ UpdateConfig
    \/ GateOpenPosition
    \/ GateUpdatePosition
    \/ ClosePosition
    \/ GateCheckCanTrade
    \/ CheckCanCancel
    \/ RecordCancel
    \/ ResetCircuitBreaker
    \/ Tick

SpecGate == Init /\ [][NextGate]_vars

----------------------------------------------------------------------------
(* UnifiedMarketMakerStrategy on its own: the position store, analyze, and *)
(* the fills of a market handed to handle_order_fill one after the other   *)
(* with the amounts get_position_for_market returns.                       *)

MMPosition(yes_amount, no_amount, avg_yes_price, avg_no_price, timestamp) ==
    [yes_amount |-> yes_amount, no_amount |-> no_amount,
     avg_yes_price |-> avg_yes_price, avg_no_price |-> avg_no_price,
     timestamp |-> timestamp]

get_position_for_market(market_id) ==
    IF market_id \in DOMAIN mm_positions
    THEN mm_positions[market_id]
    ELSE MMPosition(0, 0, 0, 0, now)

\* UnifiedMarketMakerStrategy.update_position
mm_update_position(market_id, yes_amount, no_amount, avg_yes_price, avg_no_price) ==
    /\ mm_positions' = Put(mm_positions, market_id,
                           MMPosition(yes_amount, no_amount,
                                      avg_yes_price, avg_no_price, now))
    /\ ret' = Ret("mm_update_position", TRUE, "", 0)
    /\ UNCHANGED <<now, riskVars, stratVars, secVars, concVars, restVars, active_orders,
                   filled_amounts, invVars>>

\* int(x / 2), truncated towards zero
HalfInt(x) == IF x >= 0 THEN x \div 2 ELSE 0 - ((0 - x) \div 2)

\* the dict analyze returns
analysis(position) ==
    LET yes_shares == position.yes_amount
        no_shares == position.no_amount
        total_shares == yes_shares + no_shares
        is_balanced == ~deviation_exceeds(yes_shares, no_shares)
        state == IF total_shares = 0 THEN "EMPTY"
                 ELSE IF is_balanced /\ total_shares >= min_hedge_size THEN "DUAL_TRACK"
                 ELSE IF ~is_balanced THEN "HEDGED"
                 ELSE "EMPTY"
        should_place_sell_orders ==
            IF state = "DUAL_TRACK" THEN TRUE
            ELSE IF state = "HEDGED" THEN yes_shares > 0 \/ no_shares > 0
            ELSE FALSE
        base_order_size == Max(10, min_hedge_size)
    IN  [state |-> state,
         should_place_buy_orders |-> TRUE,
         should_place_sell_orders |-> should_place_sell_orders,
         buy_order_size |-> base_order_size,
         sell_order_size |-> IF should_place_sell_orders
                             THEN Min(base_order_size, HalfInt(total_shares))
                             ELSE 0,
         is_balanced |-> is_balanced,
         yes_shares |-> yes_shares,
         no_shares |-> no_shares]

analyze(position) ==
    /\ ret' = Ret("analyze", TRUE, analysis(position).state, analysis(position))
    /\ UNCHANGED <<now, riskVars, stratVars, secVars, extVars>>

\* the next fill of the market, handled with the stored position
on_fill(market_id, side, token, filled_shares) ==
    LET position == get_position_for_market(market_id)
        left == post_fill(side, token, filled_shares,
                          filled_amounts[market_id].yes, filled_amounts[market_id].no)
    IN  /\ handle_order_fill(side, token, filled_shares,
                             position.yes_amount, position.no_amount)
        /\ filled_amounts[market_id].fills < MaxFills
        /\ filled_amounts' = [filled_amounts EXCEPT ![market_id] =
                                 [yes |-> left.yes, no |-> left.no,
                                  fills |-> filled_amounts[market_id].fills + 1]]

MMShares == {0, 2, 10, 20}
MMFilledShares == {5, 10, 600}

NextMM ==
    \/ \E m \in Markets, yes \in MMShares, no \in MMShares :
           mm_update_position(m, yes, no, 0, 0)
    \/ \E yes \in MMShares, no \in MMShares : analyze(MMPosition(yes, no, 0, 0, now))
    \/ \E m \in Markets, side \in {"BUY", "SELL"}, token \in {"YES", "NO"},
          filled_shares \in MMFilledShares : on_fill(m, side, token, filled_shares)

SpecMM == Init /\ [][NextMM]_vars

----------------------------------------------------------------------------
(* security/trade_limits.py: TradeLimiter, CircuitBreaker and              *)
(* TransactionSecurity.  The frequency and unusual-size checks of          *)
(* check_trade only add warnings to an allowed result and are left out,    *)
(* with the lists trades and trades_last_minute that feed them.            *)

TradeRecord(timestamp, amount, trade_pnl) ==
    [timestamp |-> timestamp, amount |-> amount, pnl |-> trade_pnl]

RECURSIVE SumAmounts(_)
SumAmounts(trades) ==
    IF trades = << >> THEN 0 ELSE Head(trades).amount + SumAmounts(Tail(trades))

RECURSIVE Since(_, _)
Since(trades, start) ==
    IF trades = << >> THEN << >>
    ELSE IF Head(trades).timestamp >= start
         THEN <<Head(trades)>> \o Since(Tail(trades), start)
         ELSE Since(Tail(trades), start)

\* the daily_trades _cleanup_old_records leaves: those of today
_cleanup_old_records == Since(daily_trades, now - (now % SecondsPerDay))

_check_single_trade(amount) ==
    /\ amount <= max_single_trade_usd
    /\ hot_wallet_balance > 0 =>
           amount * 100 <= max_single_trade_pct * hot_wallet_balance

_check_daily_trades(trades) == Len(trades) < max_daily_trades

_check_daily_volume(trades, amount) ==
    LET today_volume == SumAmounts(trades)
    IN  /\ today_volume + amount <= max_daily_volume_usd
        /\ hot_wallet_balance > 0 =>
               (today_volume + amount) * 100
                   <= max_daily_volume_pct * hot_wallet_balance

_check_daily_loss ==
    /\ limiter_daily_pnl > 0 - max_daily_loss_usd
    /\ hot_wallet_balance > 0 =>
           Abs(limiter_daily_pnl) * 100 < max_daily_loss_pct * hot_wallet_balance

_check_drawdown == ~AtLeastPct(current_drawdown, max_drawdown_pct)

\* the reason of check_trade's result, "" when allowed
check_trade(trades, amount) ==
    IF ~_check_single_trade(amount) THEN "single_trade"
    ELSE IF ~_check_daily_trades(trades) THEN "daily_trades"
    ELSE IF ~_check_daily_volume(trades, amount) THEN "daily_volume"
    ELSE IF ~_check_daily_loss THEN "daily_loss"
    ELSE IF ~_check_drawdown THEN "drawdown"
    ELSE ""

_trigger(reason) ==
    /\ status' = TRIGGERED
    /\ triggered_at' = now
    /\ trigger_reason' = reason
    /\ trigger_count' = trigger_count + 1
    /\ trigger_count' <= MaxTriggers
    /\ _resume_at' = now + limit_circuit_breaker_cooldown

\* TransactionSecurity.validate_transaction with CircuitBreaker.check and
\* TradeLimiter.check_trade
validate_transaction(amount) ==
    LET requested == Append(security_log, "validation_request")
        rejected == Append(requested, "rejected")
        in_cooldown == /\ status = COOLDOWN
                       /\ _resume_at # None
                       /\ now < _resume_at
        resumed == IF status = COOLDOWN THEN NORMAL ELSE status
        today == _cleanup_old_records
        reason == check_trade(today, amount)
    IN  /\ UNCHANGED <<now, riskVars, stratVars, extVars, hot_wallet_balance,
                       limiter_daily_pnl, peak_value, current_drawdown,
                       stop_in_force>>
        /\ IF status = DISABLED
           THEN /\ security_log' = rejected
                /\ ret' = Ret("validate_transaction", FALSE, "disabled", amount)
                /\ UNCHANGED <<breakerVars, daily_trades>>
           ELSE IF in_cooldown
           THEN /\ security_log' = rejected
                /\ ret' = Ret("validate_transaction", FALSE, "cooldown", amount)
                /\ UNCHANGED <<breakerVars, daily_trades>>
           ELSE IF hot_wallet_balance = 0
           THEN \* abs(daily_pnl) / hot_wallet_balance raises ZeroDivisionError
                /\ status' = resumed
                /\ security_log' = requested
                /\ ret' = Ret("validate_transaction", FALSE, "ZeroDivisionError", amount)
                /\ UNCHANGED <<triggered_at, trigger_reason, trigger_count,
                               _resume_at, daily_trades>>
           ELSE IF Abs(limiter_daily_pnl) * 100
                       >= limit_circuit_breaker_threshold * hot_wallet_balance
           THEN /\ _trigger("daily_loss")
                /\ security_log' = rejected
                /\ ret' = Ret("validate_transaction", FALSE, "tripped", amount)
                /\ UNCHANGED daily_trades
           ELSE IF AtLeastPct(current_drawdown, limit_circuit_breaker_threshold)
           THEN /\ _trigger("drawdown")
                /\ security_log' = rejected
                /\ ret' = Ret("validate_transaction", FALSE, "tripped", amount)
                /\ UNCHANGED daily_trades
           ELSE /\ status' = IF Abs(limiter_daily_pnl) * 1000
                                    >= limit_circuit_breaker_threshold * 7
                                           * hot_wallet_balance
                             THEN WARNING
                             ELSE resumed
                /\ UNCHANGED <<triggered_at, trigger_reason, trigger_count, _resume_at>>
                /\ daily_trades' = today
                /\ IF reason # ""
                   THEN /\ security_log' = rejected
                        /\ ret' = Ret("validate_transaction", FALSE, reason, amount)
                   ELSE /\ security_log' = Append(requested, "approved")
                        /\ ret' = Ret("validate_transaction", TRUE, "", amount)

\* TransactionSecurity.record_transaction -> TradeLimiter.record_trade
record_transaction(amount, trade_pnl) ==
    /\ daily_trades' = Append(daily_trades, TradeRecord(now, amount, trade_pnl))
    /\ limiter_daily_pnl' = limiter_daily_pnl + trade_pnl
    /\ ret' = Ret("record_transaction", TRUE, "", amount)
    /\ UNCHANGED <<now, riskVars, stratVars, extVars, breakerVars, hot_wallet_balance,
                   peak_value, current_drawdown, security_log, stop_in_force>>

\* TransactionSecurity.update_balance -> TradeLimiter.update_wallet_balance
update_balance(balance) ==
    /\ hot_wallet_balance' = balance
    /\ peak_value' = Max(peak_value, balance)
    /\ current_drawdown' = IF peak_value' > 0
                           THEN Fraction(peak_value' - balance, peak_value')
                           ELSE Fraction(0, 1)
    /\ ret' = Ret("update_balance", TRUE, "", balance)
    /\ UNCHANGED <<now, riskVars, stratVars, extVars, breakerVars, limiter_daily_pnl,
                   daily_trades, security_log, stop_in_force>>

\* TransactionSecurity.emergency_stop -> CircuitBreaker.manual_trigger
emergency_stop ==
    /\ _trigger("emergency_stop")
    /\ security_log' = Append(security_log, "emergency_stop")
    /\ Len(security_log') <= MaxLog
    /\ stop_in_force' = TRUE
    /\ ret' = Ret("emergency_stop", TRUE, "", 0)
    /\ UNCHANGED <<now, riskVars, stratVars, extVars, limiterVars>>

\* CircuitBreaker.reset
reset ==
    /\ status' = NORMAL
    /\ triggered_at' = None
    /\ trigger_reason' = ""
    /\ _resume_at' = None
    /\ stop_in_force' = FALSE
    /\ ret' = Ret("reset", TRUE, "", 0)
    /\ UNCHANGED <<now, riskVars, stratVars, extVars, trigger_count, limiterVars, security_log>>

\* CircuitBreaker.disable
disable ==
    /\ status' = DISABLED
    /\ ret' = Ret("disable", TRUE, "", 0)
    /\ UNCHANGED <<now, riskVars, stratVars, extVars, triggered_at, trigger_reason,
                   trigger_count, _resume_at, limiterVars, security_log,
                   stop_in_force>>

Amounts == {10, 101}
TradePnls == {0 - 120, 50}
Balances == {0, 850, 1250}

ValidateTransaction ==
    /\ Len(security_log) + 2 <= MaxLog
    /\ \E amount \in Amounts : validate_transaction(amount)
RecordTransaction ==
    /\ Len(daily_trades) < MaxTrades
    /\ \E trade_pnl \in TradePnls : record_transaction(10, trade_pnl)
UpdateBalance == \E balance \in Balances : update_balance(balance)
EmergencyStop == emergency_stop
Reset == reset
Disable == disable

NextSec ==
    \/ ValidateTransaction
    \/ RecordTransaction
    \/ UpdateBalance
    \/ EmergencyStop
    \/ Reset
    \/ Disable
    \/ Tick
    \/ NextDay

SpecSec == Init /\ [][NextSec]_vars

----------------------------------------------------------------------------
(* EnhancedRiskManager.close_position called from several threads.  The    *)
(* method takes no lock, so a thread can be preempted between the          *)
(* statements of the call and inside  self.daily_pnl += position.pnl  and  *)
(* self.peak_pnl = max(...), each of which reads, computes and writes.     *)

AllIdle == \A t \in Threads : threads[t].pc = "idle"

RECURSIVE Sum(_)
Sum(seq) == IF seq = << >> THEN 0 ELSE Head(seq) + Sum(Tail(seq))

SetThread(t, pc, loaded) ==
    threads' = [threads EXCEPT ![t].pc = pc, ![t].loaded = loaded]

\* if token_id not in self.positions: return None; position = self.positions.pop(token_id)
close_position_pop(t, token_id) ==
    /\ threads[t].pc = "idle"
    /\ IF token_id \notin DOMAIN positions
       THEN /\ ret' = RetT("close_position", token_id, FALSE, "no_position")
            /\ UNCHANGED <<positions, highest_price, threads, realized>>
       ELSE /\ positions' = Remove(positions, token_id)
            /\ highest_price' = Remove(highest_price, token_id)
            /\ threads' = [threads EXCEPT ![t] =
                              [pc |-> "load", token_id |-> token_id,
                               position |-> positions[token_id], loaded |-> 0]]
            /\ realized' = Append(realized, pnl(positions[token_id]))
            /\ Len(realized') <= MaxCloses
            /\ ret' = RetT("close_position", token_id, FALSE, "running")
    /\ UNCHANGED <<now, daily_pnl, peak_pnl, circuit_breaker_state,
                   circuit_breaker_triggered_at, volatility_paused_until,
                   last_cancel_time, last_trade_time, alerts, loss_breached,
                   stratVars, secVars, mmVars, invVars, restVars>>

\* self.daily_pnl += position.pnl: the read of self.daily_pnl
close_position_load(t) ==
    /\ threads[t].pc = "load"
    /\ SetThread(t, "store", daily_pnl)
    /\ ret' = RetT("close_position", threads[t].token_id, FALSE, "running")
    /\ UNCHANGED <<now, riskVars, stratVars, secVars, realized, mmVars, invVars, restVars>>

\* self.daily_pnl += position.pnl: the write
close_position_store(t) ==
    LET new_pnl == threads[t].loaded + pnl(threads[t].position)
    IN  /\ threads[t].pc = "store"
        /\ Abs(new_pnl) <= PnlCap
        /\ daily_pnl' = new_pnl
        /\ loss_breached' = (loss_breached \/ new_pnl < 0 - max_daily_loss)
        /\ SetThread(t, "peak_load", 0)
        /\ ret' = RetT("close_position", threads[t].token_id, FALSE, "running")
        /\ UNCHANGED <<now, positions, peak_pnl, circuit_breaker_state,
                       circuit_breaker_triggered_at, volatility_paused_until,
                       last_cancel_time, last_trade_time, alerts, highest_price,
                       stratVars, secVars, realized, mmVars, invVars, restVars>>

\* self.peak_pnl = max(self.peak_pnl, self.daily_pnl): the reads and max()
close_position_peak_load(t) ==
    /\ threads[t].pc = "peak_load"
    /\ SetThread(t, "peak_store", updated_peak_pnl(daily_pnl))
    /\ ret' = RetT("close_position", threads[t].token_id, FALSE, "running")
    /\ UNCHANGED <<now, riskVars, stratVars, secVars, realized, mmVars, invVars, restVars>>

\* self.peak_pnl = max(self.peak_pnl, self.daily_pnl): the write
close_position_peak_store(t) ==
    /\ threads[t].pc = "peak_store"
    /\ peak_pnl' = threads[t].loaded
    /\ SetThread(t, "finish", 0)
    /\ ret' = RetT("close_position", threads[t].token_id, FALSE, "running")
    /\ UNCHANGED <<now, positions, daily_pnl, circuit_breaker_state,
                   circuit_breaker_triggered_at, volatility_paused_until,
                   last_cancel_time, last_trade_time, alerts, highest_price,
                   loss_breached, stratVars, secVars, realized, mmVars, invVars, restVars>>

\* self.last_trade_time = ...; the breaker test; return position
close_position_finish(t) ==
    /\ threads[t].pc = "finish"
    /\ last_trade_time' = now
    /\ IF loss_trips_breaker(daily_pnl)
       THEN _trigger_circuit_breaker
       ELSE UNCHANGED <<circuit_breaker_state, circuit_breaker_triggered_at, alerts>>
    /\ threads' = [threads EXCEPT ![t] = IdleThread]
    /\ ret' = RetT("close_position", threads[t].token_id, TRUE, "position")
    /\ UNCHANGED <<now, positions, daily_pnl, peak_pnl, volatility_paused_until,
                   last_cancel_time, highest_price, loss_breached,
                   stratVars, secVars, realized, mmVars, invVars, restVars>>

ConcTokens == {"tokA", "tokB"}
ConcPrices == {99, 101}

NextConc ==
    \* open_position and update_position calls that overlap no other call
    \/ AllIdle /\ \E token_id \in ConcTokens : open_position(token_id, "BUY", 60, 100)
    \/ AllIdle /\ \E token_id \in ConcTokens, price \in ConcPrices :
                      update_position(token_id, price)
    \/ \E t \in Threads, token_id \in ConcTokens : close_position_pop(t, token_id)
    \/ \E t \in Threads : close_position_load(t)
    \/ \E t \in Threads : close_position_store(t)
    \/ \E t \in Threads : close_position_peak_load(t)
    \/ \E t \in Threads : close_position_peak_store(t)
    \/ \E t \in Threads : close_position_finish(t)

SpecConc == Init /\ [][NextConc]_vars

----------------------------------------------------------------------------
(* core/inventory_manager.py: SmartInventoryManager with the default       *)
(* InventoryConfig.  Amounts are whole shares, prices are in cents, and    *)
(* the ratios 0.5, 0.7, 0.9, hedge_threshold and hedge_ratio are percent.  *)

max_position == 100
hedge_threshold == 70               \* percent
hedge_ratio == 50                   \* percent
price_history_maxlen == 2           \* deque(maxlen=50), scaled
MaxHedgeHistory == 2                \* longest hedge_history explored

InventoryPosition(yes_amount, no_amount, net_exposure, max_pos, risk_level, pnl_entry) ==
    [yes_amount |-> yes_amount, no_amount |-> no_amount,
     net_exposure |-> net_exposure, max_position |-> max_pos,
     risk_level |-> risk_level, unrealized_pnl |-> pnl_entry.unrealized_pnl,
     avg_entry_price |-> pnl_entry.avg_entry_price]

HedgeRecommendation(should_hedge, side, amount, urgency) ==
    [should_hedge |-> should_hedge, side |-> side, amount |-> amount,
     urgency |-> urgency]

\* mutant of exposure: the NO side forgotten
exposure_yes_only(yes_amount, no_amount) == yes_amount

\* net_exposure = yes_amount - no_amount
exposure(yes_amount, no_amount) == yes_amount - no_amount

\* the tier of exposure_ratio = |net_exposure| / max_pos
risk_tier(net_exposure, max_pos) ==
    IF max_pos > 0 /\ Abs(net_exposure) * 100 > 90 * max_pos THEN "CRITICAL"
    ELSE IF max_pos > 0 /\ Abs(net_exposure) * 100 > 70 * max_pos THEN "HIGH"
    ELSE IF max_pos > 0 /\ Abs(net_exposure) * 100 > 50 * max_pos THEN "MEDIUM"
    ELSE "LOW"

\* deque(maxlen).append
_update_price_history(token_id, price) ==
    LET history == IF token_id \in DOMAIN inv_price_history
                   THEN inv_price_history[token_id] ELSE << >>
        appended == Append(history, price)
    IN  inv_price_history' =
            Put(inv_price_history, token_id,
                IF Len(appended) > price_history_maxlen
                THEN Tail(appended) ELSE appended)

inv_update_position(token_id, yes_amount, no_amount, current_price, avg_entry_price) ==
    LET net_exposure == exposure(yes_amount, no_amount)
        max_pos == max_position
        unrealized_pnl == IF avg_entry_price > 0
                          THEN (current_price - avg_entry_price) * net_exposure
                          ELSE 0
        position == InventoryPosition(yes_amount, no_amount, net_exposure, max_pos,
                                      risk_tier(net_exposure, max_pos),
                                      [unrealized_pnl |-> unrealized_pnl,
                                       avg_entry_price |-> avg_entry_price])
    IN  /\ inv_positions' = Put(inv_positions, token_id, position)
        /\ _update_price_history(token_id, current_price)
        /\ ret' = [Ret("inv_update_position", TRUE, "", position) EXCEPT !.token = token_id]
        /\ UNCHANGED <<now, riskVars, stratVars, secVars, concVars, restVars, mmVars,
                       hedge_history>>

\* mutant of below_hedge_threshold: the threshold itself counted as safe
below_hedge_threshold_incl(position) ==
    IF position.max_position > 0
    THEN Abs(position.net_exposure) * 100 <= hedge_threshold * position.max_position
    ELSE TRUE

\* exposure_ratio < hedge_threshold
below_hedge_threshold(position) ==
    IF position.max_position > 0
    THEN Abs(position.net_exposure) * 100 < hedge_threshold * position.max_position
    ELSE TRUE

\* the HedgeRecommendation for the stored position of token_id; the amount
\* |net_exposure| * hedge_ratio is a whole number for the positions explored
hedge_recommendation(token_id) ==
    IF token_id \notin DOMAIN inv_positions
    THEN HedgeRecommendation(FALSE, "None", 0, "LOW")
    ELSE LET position == inv_positions[token_id]
         IN  IF below_hedge_threshold(position)
             THEN HedgeRecommendation(FALSE, "None", 0, "LOW")
             ELSE HedgeRecommendation(
                      TRUE,
                      IF position.net_exposure > 0 THEN "SELL" ELSE "BUY",
                      (Abs(position.net_exposure) * hedge_ratio) \div 100,
                      IF position.risk_level = "CRITICAL" THEN "HIGH"
                      ELSE IF position.risk_level = "HIGH" THEN "MEDIUM"
                      ELSE "LOW")

get_hedge_recommendation(token_id) ==
    /\ ret' = [Ret("get_hedge_recommendation",
                   hedge_recommendation(token_id).should_hedge, "",
                   hedge_recommendation(token_id)) EXCEPT !.token = token_id]
    /\ UNCHANGED <<now, riskVars, stratVars, secVars, extVars>>

\* mutant of hedged_amounts: every hedge trades the YES side
hedged_amounts_yes_only(position, side, amount) ==
    IF side = "SELL"
    THEN [yes |-> position.yes_amount - amount, no |-> position.no_amount]
    ELSE [yes |-> position.yes_amount + amount, no |-> position.no_amount]

\* the amounts execute_hedge leaves
hedged_amounts(position, side, amount) ==
    IF side = "SELL"
    THEN IF position.net_exposure > 0
         THEN [yes |-> position.yes_amount - amount, no |-> position.no_amount]
         ELSE [yes |-> position.yes_amount, no |-> position.no_amount - amount]
    ELSE IF position.net_exposure < 0
         THEN [yes |-> position.yes_amount + amount, no |-> position.no_amount]
         ELSE [yes |-> position.yes_amount, no |-> position.no_amount + amount]

execute_hedge(token_id, side, amount, price) ==
    IF token_id \notin DOMAIN inv_positions
    THEN /\ ret' = [Ret("execute_hedge", FALSE, "",
                        [side |-> side, amount |-> amount])
                        EXCEPT !.token = token_id]
         /\ UNCHANGED <<now, riskVars, stratVars, secVars, extVars>>
    ELSE LET position == inv_positions[token_id]
             amounts == hedged_amounts(position, side, amount)
             net_exposure == exposure(amounts.yes, amounts.no)
             hedge_record == [token_id |-> token_id, side |-> side,
                              amount |-> amount, price |-> price,
                              exposure_before |-> position.net_exposure,
                              exposure_after |-> net_exposure]
         IN  /\ Len(hedge_history) < MaxHedgeHistory
             /\ hedge_history' = Append(hedge_history, hedge_record)
             /\ inv_positions' =
                    Put(inv_positions, token_id,
                        [position EXCEPT
                            !.yes_amount = amounts.yes,
                            !.no_amount = amounts.no,
                            !.net_exposure = net_exposure,
                            !.risk_level = risk_tier(net_exposure,
                                                     position.max_position)])
             /\ ret' = [Ret("execute_hedge", TRUE, "",
                            [side |-> side, amount |-> amount])
                            EXCEPT !.token = token_id]
             /\ UNCHANGED <<now, riskVars, stratVars, secVars, concVars, restVars, mmVars,
                            inv_price_history>>

remove_position(token_id) ==
    /\ inv_positions' = IF token_id \in DOMAIN inv_positions
                        THEN Remove(inv_positions, token_id) ELSE inv_positions
    /\ inv_price_history' = IF token_id \in DOMAIN inv_price_history
                            THEN Remove(inv_price_history, token_id)
                            ELSE inv_price_history
    /\ ret' = RetT("remove_position", token_id, TRUE, "")
    /\ UNCHANGED <<now, riskVars, stratVars, secVars, concVars, restVars, mmVars,
                   hedge_history>>

clear ==
    /\ inv_positions' = << >>
    /\ inv_price_history' = << >>
    /\ hedge_history' = << >>
    /\ ret' = Ret("clear", TRUE, "", 0)
    /\ UNCHANGED <<now, riskVars, stratVars, secVars, concVars, restVars, mmVars>>

InvTokens == {"tokA"}
InvYesAmounts == {0, 50, 70, 90}
InvNoAmounts == {0, 70}
InvPrices == {60}
HedgeSides == {"SELL", "BUY"}
HedgeAmounts == {20}

NextInv ==
    \/ \E token_id \in InvTokens, yes \in InvYesAmounts, no \in InvNoAmounts,
          price \in InvPrices, entry \in {0, 50} :
           inv_update_position(token_id, yes, no, price, entry)
    \/ \E token_id \in InvTokens : get_hedge_recommendation(token_id)
    \/ \E token_id \in InvTokens, side \in HedgeSides, price \in InvPrices :
           \E amount \in HedgeAmounts
                         \cup {hedge_recommendation(token_id).amount}
                         \cup {Abs(inv_positions[t].net_exposure) :
                                   t \in DOMAIN inv_positions \cap {token_id}} :
               execute_hedge(token_id, side, amount, price)
    \/ \E token_id \in InvTokens : remove_position(token_id)
    \/ clear

SpecInv == Init /\ [][NextInv]_vars

----------------------------------------------------------------------------
(* strategies/cross_platform_arb.py: the scans of CrossPlatformArbitrage    *)
(* with the default CrossPlatformConfig.  Prices, costs and              *)
(* find_cross_platform_opportunities' profit are in thousandths; a ratio    *)
(* is a Fraction.  A question is the sequence of its words.  An             *)
(* opportunity names its markets by platform and market_id and keeps the    *)
(* prices it was computed from in details; the timestamps are left out.     *)
(* Prices are positive (a market of total 0 makes the intra scan divide by  *)
(* zero).                                                                   *)

min_profit_pct == 10                \* thousandths
min_similarity == 78                \* percent
transfer_cost == 2                  \* thousandths
slippage_bps == 250
fee_bps == 100

LessF(a, b) == a.num * b.den < b.num * a.den

PlatformMarket(platform, market_id, question, yes_price, no_price) ==
    [platform |-> platform, market_id |-> market_id, question |-> question,
     yes_price |-> yes_price, no_price |-> no_price, liquidity |-> 0, volume_24h |-> 0]

ArbitrageOpportunity(opportunity_id, arb_type, market_a, market_b, profit_pct, action, details) ==
    [opportunity_id |-> opportunity_id, arb_type |-> arb_type,
     market_a |-> market_a, market_b |-> market_b,
     profit_pct |-> profit_pct,
     profit_usd |-> Fraction(max_position_usd * profit_pct.num, profit_pct.den),
     action |-> action, details |-> details]

MarketKey(market) == <<market.platform, market.market_id>>

\* where market_id sits in the dict of its platform, 0 if it is not there
MarketIndex(platform, market_id) ==
    LET found == {i \in DOMAIN markets[platform] :
                      markets[platform][i].market_id = market_id}
    IN  IF found = {} THEN 0 ELSE CHOOSE i \in found : TRUE

add_market(market) ==
    LET i == MarketIndex(market.platform, market.market_id)
    IN  /\ markets' = [markets EXCEPT ![market.platform] =
                           IF i = 0 THEN Append(@, market)
                           ELSE [@ EXCEPT ![i] = market]]
        /\ ret' = Ret("add_market", TRUE, "", 0)
        /\ UNCHANGED <<now, riskVars, secVars, extVars, hedges_executed,
                       auto_execute, executed_trades, opportunities>>

update_market(platform, market_id, yes_price, no_price) ==
    LET i == MarketIndex(platform, market_id)
    IN  /\ markets' = IF i = 0 THEN markets
                      ELSE [markets EXCEPT ![platform][i].yes_price = yes_price,
                                           ![platform][i].no_price = no_price,
                                           ![platform][i].liquidity = 0,
                                           ![platform][i].volume_24h = 0]
        /\ ret' = Ret("update_market", i # 0, "", 0)
        /\ UNCHANGED <<now, riskVars, secVars, extVars, hedges_executed,
                       auto_execute, executed_trades, opportunities>>

\* q.lower() on the words the questions are made of
Lower(word) ==
    CASE word = "Will" -> "will"
      [] word = "BTC" -> "btc"
      [] OTHER -> word

StopWords == {"yes", "no", "true", "false", "will", "be", "is", "are", "the", "a", "an"}

\* the words of normalize(q)
normalize(question) == {Lower(question[i]) : i \in DOMAIN question} \ StopWords

_calculate_similarity(question_a, question_b) ==
    LET words1 == normalize(question_a)
        words2 == normalize(question_b)
    IN  IF words1 = {} \/ words2 = {} THEN Fraction(0, 1)
        ELSE Fraction(Cardinality(words1 \cap words2), Cardinality(words1 \cup words2))

total_cost == (fee_bps \div 10) * 2 + (slippage_bps \div 10) * 2 + transfer_cost

\* mutant of arbitrage_action: the two venues swapped
arbitrage_action_swapped(market_a, market_b) ==
    IF market_a.yes_price - market_b.yes_price < 0
    THEN <<"BUY_YES", market_b.platform, "SELL_YES", market_a.platform>>
    ELSE <<"BUY_YES", market_a.platform, "SELL_YES", market_b.platform>>

\* f"BUY_YES_{...}_SELL_YES_{...}", kept as its four parts
arbitrage_action(market_a, market_b) ==
    IF market_a.yes_price - market_b.yes_price < 0
    THEN <<"BUY_YES", market_a.platform, "SELL_YES", market_b.platform>>
    ELSE <<"BUY_YES", market_b.platform, "SELL_YES", market_a.platform>>

\* the opportunity of a pair of markets as a list: empty for None
_calculate_arbitrage(market_a, market_b, similarity) ==
    LET yes_diff == market_a.yes_price - market_b.yes_price
    IN  IF Abs(yes_diff) > total_cost + min_profit_pct
        THEN << ArbitrageOpportunity(
                    <<"cross", market_a.platform, market_b.platform, market_a.market_id>>,
                    "cross_platform", MarketKey(market_a), MarketKey(market_b),
                    Fraction(Abs(yes_diff) - total_cost, 1000),
                    arbitrage_action(market_a, market_b),
                    [yes_price_a |-> market_a.yes_price,
                     yes_price_b |-> market_b.yes_price,
                     price_diff |-> yes_diff, total_cost |-> total_cost,
                     similarity |-> similarity]) >>
        ELSE << >>

RECURSIVE Concat(_)
Concat(lists) ==
    IF lists = << >> THEN << >> ELSE Head(lists) \o Concat(Tail(lists))

_find_opportunities_between_platforms(platform_a, platform_b) ==
    LET markets_a == markets[platform_a]
        markets_b == markets[platform_b]
        pair(k) == [a |-> markets_a[((k - 1) \div Len(markets_b)) + 1],
                    b |-> markets_b[((k - 1) % Len(markets_b)) + 1]]
        found(k) ==
            LET similarity == _calculate_similarity(pair(k).a.question,
                                                    pair(k).b.question)
            IN  IF similarity.num * 100 < min_similarity * similarity.den
                THEN << >>
                ELSE _calculate_arbitrage(pair(k).a, pair(k).b, similarity)
    IN  Concat([k \in 1..(Len(markets_a) * Len(markets_b)) |-> found(k)])

\* list.sort(key=profit_pct, reverse=True): stable, equal profits keep their order
RECURSIVE SortByProfit(_)
SortByProfit(opps) ==
    IF opps = << >> THEN << >>
    ELSE LET before == SortByProfit(SubSeq(opps, 1, Len(opps) - 1))
             last == opps[Len(opps)]
             keep == {i \in DOMAIN before :
                          ~LessF(before[i].profit_pct, last.profit_pct)}
             n == Cardinality(keep)
         IN  SubSeq(before, 1, n) \o <<last>> \o SubSeq(before, n + 1, Len(before))

\* mutant of stored_after_scan: the scan extends the stored list
stored_after_scan_extend(found) == SortByProfit(opportunities \o found)

\* self.opportunities = opportunities
stored_after_scan(found) == found

find_cross_platform_opportunities ==
    LET n == Len(PlatformOrder)
        found == Concat([i \in 1..n |->
                     Concat([j \in 1..(n - i) |->
                         _find_opportunities_between_platforms(
                             PlatformOrder[i], PlatformOrder[i + j])])])
    IN  /\ opportunities' = stored_after_scan(SortByProfit(found))
        /\ ret' = Ret("find_cross_platform_opportunities", TRUE, "", SortByProfit(found))
        /\ UNCHANGED <<now, riskVars, secVars, extVars, hedges_executed,
                       auto_execute, executed_trades, markets>>

\* the opportunity of one market as a list: empty for none
intra_opportunity(platform, market) ==
    LET total == market.yes_price + market.no_price
        opp(profit_pct, action, deviation) ==
            IF ~LessF(profit_pct, Fraction(min_profit_pct, 1000))
            THEN << ArbitrageOpportunity(
                        <<"intra", platform, market.market_id>>,
                        "intra_platform", MarketKey(market), None,
                        profit_pct, <<action>>,
                        [yes_price |-> market.yes_price,
                         no_price |-> market.no_price,
                         total |-> total, deviation |-> deviation]) >>
            ELSE << >>
    IN  IF total < 990
        THEN opp(Fraction(1000 - total, total), "BUY_BOTH", 1000 - total)
        ELSE IF total > 1010
        THEN opp(Fraction(total - 1000, total), "SELL_OVERVALUED", total - 1000)
        ELSE << >>

find_intra_platform_opportunities(platform) ==
    /\ ret' = [Ret("find_intra_platform_opportunities", TRUE, "",
                   Concat([i \in DOMAIN markets[platform] |->
                               intra_opportunity(platform, markets[platform][i])]))
               EXCEPT !.token = platform]
    /\ UNCHANGED <<now, riskVars, stratVars, secVars, extVars>>

get_top_opportunities(limit) ==
    /\ ret' = Ret("get_top_opportunities", TRUE, "",
                  [limit |-> limit,
                   top |-> SubSeq(SortByProfit(opportunities), 1,
                                  Min(limit, Len(opportunities)))])
    /\ UNCHANGED <<now, riskVars, stratVars, secVars, extVars>>

clear_opportunities ==
    /\ opportunities' = << >>
    /\ ret' = Ret("clear_opportunities", TRUE, "", 0)
    /\ UNCHANGED <<now, riskVars, secVars, extVars, hedges_executed,
                   auto_execute, executed_trades, markets>>

\* the markets offered to add_market: the questions of the first two are the
\* same after normalize, the third shares two words of three with them
Listings ==
    {[platform |-> "polymarket", market_id |-> "m1", question |-> <<"Will", "BTC", "rise">>],
     [platform |-> "predict_fun", market_id |-> "m1", question |-> <<"btc", "rise", "the">>],
     [platform |-> "predict_fun", market_id |-> "m2", question |-> <<"btc", "rise", "soon">>],
     [platform |-> "kalshi", market_id |-> "m1", question |-> <<"Will", "BTC", "rise">>]}
Quotes == {<<600, 550>>, <<300, 700>>, <<510, 510>>}
Limits == {1, 10}

NextArb ==
    \/ \E listing \in Listings, quote \in Quotes :
           add_market(PlatformMarket(listing.platform, listing.market_id,
                                     listing.question, quote[1], quote[2]))
    \/ \E listing \in Listings, quote \in Quotes :
           update_market(listing.platform, listing.market_id, quote[1], quote[2])
    \/ find_cross_platform_opportunities
    \/ \E platform \in Platform : find_intra_platform_opportunities(platform)
    \/ \E limit \in Limits : get_top_opportunities(limit)
    \/ clear_opportunities

SpecArb == Init /\ [][NextArb]_vars

----------------------------------------------------------------------------
(* pricing/black_scholes.py.  S and K are integers, T is in days (a year    *)
(* has 365), sigma is in percent, prices are in millionths and the normal   *)
(* distribution's values in thousandths.  A call either returns a value or  *)
(* raises: raised names the exception.                                      *)

Returned(value) == [value |-> value, raised |-> ""]
Raised(exception) == [value |-> 0, raised |-> exception]

\* math.exp(-self.r * T) with r = 0.05, for the T of TimesToExpiry
discount(T) ==
    CASE T = 1 -> 999863
      [] T = 365 -> 951229

\* what d2 (through d1) does: 0 for T <= 0 or sigma <= 0, S / K and
\* math.log(S / K) raising for K = 0 and S / K <= 0, a real number otherwise
d2(S, K, T, sigma) ==
    IF T <= 0 \/ sigma <= 0 THEN "0"
    ELSE IF K = 0 THEN "ZeroDivisionError"
    ELSE IF S * K <= 0 THEN "ValueError"
    ELSE "real"

\* norm_cdf(d2(S, K, T, sigma)) where d2 is a real number, rounded to
\* thousandths, for the inputs of SpotPrices, Strikes, TimesToExpiry and
\* Sigmas (sigma = 1 is the floor 0.01 of binary_call_price)
norm_cdf_d2(S, K, T, sigma) ==
    CASE <<S, K, T, sigma>> = <<50, 100, 1, 1>> -> 0
      [] <<S, K, T, sigma>> = <<50, 100, 1, 50>> -> 0
      [] <<S, K, T, sigma>> = <<50, 100, 365, 1>> -> 0
      [] <<S, K, T, sigma>> = <<50, 100, 365, 50>> -> 62
      [] <<S, K, T, sigma>> = <<100, 100, 1, 1>> -> 603
      [] <<S, K, T, sigma>> = <<100, 100, 1, 50>> -> 497
      [] <<S, K, T, sigma>> = <<100, 100, 365, 1>> -> 1000
      [] <<S, K, T, sigma>> = <<100, 100, 365, 50>> -> 440
      [] <<S, K, T, sigma>> = <<200, 100, 1, 1>> -> 1000
      [] <<S, K, T, sigma>> = <<200, 100, 1, 50>> -> 1000
      [] <<S, K, T, sigma>> = <<200, 100, 365, 1>> -> 1000
      [] <<S, K, T, sigma>> = <<200, 100, 365, 50>> -> 892

\* norm_cdf(x) for x = d2 and, with negate, for x = -d2
norm_cdf(d, S, K, T, sigma, negate) ==
    IF d = "0" THEN 500
    ELSE IF negate THEN 1000 - norm_cdf_d2(S, K, T, sigma)
    ELSE norm_cdf_d2(S, K, T, sigma)

\* max(0.001, min(0.999, price))
clamp(price) == Max(1000, Min(999000, price))

binary_call_price(S, K, T, sigma) ==
    IF T <= 0 THEN Returned(IF S >= K THEN 1000000 ELSE 0)
    ELSE LET floored == IF sigma <= 0 THEN 1 ELSE sigma
             d == d2(S, K, T, floored)
         IN  IF d \in {"ZeroDivisionError", "ValueError"} THEN Raised(d)
             ELSE Returned(clamp((discount(T) * norm_cdf(d, S, K, T, floored, FALSE))
                                     \div 1000))

binary_put_price(S, K, T, sigma) ==
    IF T <= 0 THEN Returned(IF S < K THEN 1000000 ELSE 0)
    ELSE LET d == d2(S, K, T, sigma)
         IN  IF d \in {"ZeroDivisionError", "ValueError"} THEN Raised(d)
             ELSE Returned(clamp((discount(T) * norm_cdf(d, S, K, T, sigma, TRUE))
                                     \div 1000))

\* delta, gamma, vega and theta: whether the call returns; the value is not modelled
greek(S, K, T, sigma) ==
    IF T <= 0 \/ sigma <= 0 THEN Returned(0)
    ELSE IF d2(S, K, T, sigma) \in {"ZeroDivisionError", "ValueError"}
    THEN Raised(d2(S, K, T, sigma))
    ELSE Returned(0)

theoretical(S, K, T, sigma, option_type) ==
    IF option_type = "call" THEN binary_call_price(S, K, T, sigma)
    ELSE binary_put_price(S, K, T, sigma)

\* root is the volatility brentq finds, None when price_diff has the same
\* sign at both ends of the bracket; the except clause turns every exception
\* into 0.5
implied_volatility(market_price, S, K, T, option_type, root) ==
    IF T <= 0 THEN Returned(0)
    ELSE IF d2(S, K, T, 1) \in {"ZeroDivisionError", "ValueError"}
    THEN Returned(500000)
    ELSE IF root = None
    THEN Returned(IF market_price > 500000 THEN 500000 ELSE 800000)
    ELSE Returned(root)

price_binary_option(S, K, T, sigma, market_price, option_type) ==
    LET price == theoretical(S, K, T, sigma, option_type)
    IN  IF price.raised # "" THEN [raised |-> price.raised]
        ELSE IF greek(S, K, T, sigma).raised # ""
        THEN [raised |-> greek(S, K, T, sigma).raised]
        ELSE [raised |-> "", market_price |-> market_price,
              theoretical_price |-> price.value,
              mispricing |-> price.value - market_price,
              edge |-> price.value - market_price - 20000]

\* the log-returns of consecutive positive prices, each kept as the pair
\* <<prices[i], prices[i-1]>> of its ratio
log_returns(prices) ==
    SelectSeq([i \in 1..(Len(prices) - 1) |-> <<prices[i + 1], prices[i]>>],
              LAMBDA r : r[1] > 0 /\ r[2] > 0)

\* 0.5 by default; otherwise the annualized sample standard deviation of the
\* last window log-returns, which is 0 exactly when they are all equal
historical_volatility(prices, window) ==
    LET returns == log_returns(prices)
        recent_returns == SubSeq(returns, Max(1, Len(returns) - window + 1),
                                 Len(returns))
    IN  IF Len(prices) < window \/ Len(returns) < 2
        THEN [value |-> 500000, raised |-> "", returns |-> << >>, default |-> TRUE,
              zero |-> FALSE]
        ELSE [value |-> 0, raised |-> "", returns |-> recent_returns, default |-> FALSE,
              zero |-> \A i, j \in DOMAIN recent_returns :
                           recent_returns[i][1] * recent_returns[j][2]
                               = recent_returns[j][1] * recent_returns[i][2]]

\* analyze_market called with at most 20 historical prices and no high / low
\* prices: sigma is the default 0.5
analyze_market(current_price, target_price, time_to_expiry, market_yes_price, historical_prices) ==
    LET sigma == 50
        yes_result == price_binary_option(current_price, target_price,
                                          time_to_expiry, sigma, market_yes_price,
                                          "call")
        no_result == price_binary_option(current_price, target_price,
                                         time_to_expiry, sigma,
                                         1000000 - market_yes_price, "put")
    IN  IF yes_result.raised # "" THEN [raised |-> yes_result.raised]
        ELSE IF no_result.raised # "" THEN [raised |-> no_result.raised]
        ELSE [yes |-> yes_result, no |-> no_result, raised |-> ""]

SpotPrices == {0 - 100, 0, 50, 100, 200}
Strikes == {0, 100}
TimesToExpiry == {0 - 1, 0, 1, 365}
Sigmas == {0, 50}
MarketPrices == {400000, 600000}
PriceSeries == {<< >>, <<100, 101>>, <<100, 100, 100>>, <<100, 0, 101>>,
                <<100, 101, 99>>, <<100, 101, 99, 102, 98>>}
Windows == {20, 2}

Call(op, inputs, result) ==
    /\ ret' = Ret(op, result.raised = "", result.raised,
                  [inputs |-> inputs, result |-> result])
    /\ UNCHANGED <<now, riskVars, stratVars, secVars, extVars>>

NextPricing ==
    \/ \E S \in SpotPrices, K \in Strikes, T \in TimesToExpiry, sigma \in Sigmas :
           \/ Call("binary_call_price", <<S, K, T, sigma>>,
                   binary_call_price(S, K, T, sigma))
           \/ Call("binary_put_price", <<S, K, T, sigma>>,
                   binary_put_price(S, K, T, sigma))
           \/ Call("greek", <<S, K, T, sigma>>, greek(S, K, T, sigma))
           \/ \E market_price \in MarketPrices, option_type \in {"call", "put"} :
                  Call("price_binary_option", <<S, K, T, sigma, market_price, option_type>>,
                       price_binary_option(S, K, T, sigma, market_price, option_type))
    \/ \E S \in SpotPrices, K \in Strikes, T \in TimesToExpiry,
          market_price \in MarketPrices, option_type \in {"call", "put"},
          root \in {None, 1000, 5000000} :
           Call("implied_volatility", <<S, K, T, market_price, option_type>>,
                implied_volatility(market_price, S, K, T, option_type, root))
    \/ \E prices \in PriceSeries, window \in Windows :
           Call("historical_volatility", <<prices, window>>,
                historical_volatility(prices, window))
    \/ \E S \in SpotPrices, K \in Strikes, T \in TimesToExpiry,
          market_price \in MarketPrices, prices \in PriceSeries :
           /\ Len(prices) <= 20
           /\ Call("analyze_market", <<S, K, T, market_price>>,
                   analyze_market(S, K, T, market_price, prices))

SpecPricing == Init /\ [][NextPricing]_vars

----------------------------------------------------------------------------
(* core/dynamic_spread.py.  Spreads and order-book prices are in millionths *)
(* (new_spread is rounded to six decimals), volatility and the six factors  *)
(* in ten-thousandths, liquidity, volume and sizes in USDT, pressure,       *)
(* depth_trend, imbalance and confidence in hundredths.  A product is cut   *)
(* to the millionth.                                                        *)

(* DynamicSpreadConfig defaults *)
base_spread == 20000
min_spread == 5000
max_spread == 100000
volatility_weight == 30             \* percent
liquidity_weight == 25              \* percent
volume_weight == 20                 \* percent
pressure_weight == 15               \* percent
adjustment_speed == 50              \* percent

spread_history_maxlen == 2          \* deque(maxlen=100), scaled
MaxAdjustments == 2                 \* adjustment_count explored

MarketCondition(volatility, liquidity, volume, pressure, depth_trend, imbalance) ==
    [liquidity |-> liquidity, volatility |-> volatility, volume |-> volume,
     pressure |-> pressure, depth_trend |-> depth_trend, imbalance |-> imbalance]

_calculate_volatility_factor(volatility) ==
    IF volatility > 100 THEN Min((volatility - 100) * 5, 5000)
    ELSE IF volatility < 50 THEN 0 - (50 - volatility) * 3
    ELSE 0

_calculate_liquidity_factor(liquidity) ==
    IF liquidity < 1000 THEN 0 - (1000 - liquidity) * 3 ELSE 0

_calculate_volume_factor(volume) ==
    IF volume > 10000 THEN 0 - Min((volume - 10000) \div 5, 2000) ELSE 0

_calculate_pressure_factor(pressure) ==
    IF Abs(pressure) > 50 THEN (Abs(pressure) - 50) * 30 ELSE 0

_calculate_depth_trend_factor(depth_trend) ==
    IF depth_trend < 80 THEN (80 - depth_trend) * 20 ELSE 0

_calculate_imbalance_factor(imbalance) ==
    IF Abs(imbalance) > 30 THEN (Abs(imbalance) - 30) * 30 ELSE 0

\* the factors, in the order of the dict
spread_factors(condition) ==
    <<_calculate_volatility_factor(condition.volatility),
      _calculate_liquidity_factor(condition.liquidity),
      _calculate_volume_factor(condition.volume),
      _calculate_pressure_factor(condition.pressure),
      _calculate_depth_trend_factor(condition.depth_trend),
      _calculate_imbalance_factor(condition.imbalance)>>

\* in millionths
weighted_adjustment(factors) ==
    factors[1] * volatility_weight + factors[2] * liquidity_weight
        + factors[3] * volume_weight + factors[4] * pressure_weight
        + factors[5] * 5 + factors[6] * 5

\* spread * adjustment, both in millionths, cut to the millionth
ScaleSpread(spread, adjustment) ==
    ((spread \div 1000) * adjustment + ((spread % 1000) * adjustment) \div 1000)
        \div 1000

clamped_spread(target_spread) == Max(min_spread, Min(max_spread, target_spread))

smoothed_spread(current_spread, clamped) ==
    (current_spread * (100 - adjustment_speed) + clamped * adjustment_speed) \div 100

_calculate_confidence(condition, factors) ==
    LET total_adjustment == Abs(factors[1] + factors[2] + factors[3] + factors[4]
                                    + factors[5] + factors[6])
    IN  Min(100, 50 + (IF condition.volatility > 0 THEN 10 ELSE 0)
                    + (IF condition.liquidity > 0 THEN 10 ELSE 0)
                    + (IF condition.volume > 0 THEN 10 ELSE 0)
                    + (IF \/ \A i \in DOMAIN factors : factors[i] > 0
                          \/ \A i \in DOMAIN factors : factors[i] < 0
                       THEN 15 ELSE 0)
                    + (IF 500 < total_adjustment /\ total_adjustment < 3000
                       THEN 5 ELSE 0))

\* the direction and the factors named in the reason; "" when none is named
_generate_reason(factors, total_adjustment) ==
    LET named == {i \in DOMAIN factors : Abs(factors[i]) > 500}
    IN  IF named = {} THEN <<"", named>>
        ELSE <<IF total_adjustment > 0 THEN "widen" ELSE "narrow", named>>

_update_history(market_id, spread) ==
    LET history == IF market_id \in DOMAIN spread_history
                   THEN spread_history[market_id] ELSE << >>
        appended == Append(history, spread)
    IN  Put(spread_history, market_id,
            IF Len(appended) > spread_history_maxlen THEN Tail(appended)
            ELSE appended)

SpreadAdjustment(condition, current_spread) ==
    LET factors == spread_factors(condition)
        target_spread == current_spread
                             + ScaleSpread(current_spread, weighted_adjustment(factors))
    IN  [reason |-> _generate_reason(factors, weighted_adjustment(factors)),
         condition |-> condition,
         factors |-> factors,
         current_spread |-> current_spread,
         new_spread |-> smoothed_spread(current_spread, clamped_spread(target_spread)),
         confidence |-> _calculate_confidence(condition, factors)]

calculate_adjustment(op, market_id, condition, current_spread) ==
    LET adjustment == SpreadAdjustment(condition, current_spread)
    IN  /\ adjustment_count < MaxAdjustments
        /\ spread_history' = _update_history(market_id, adjustment.new_spread)
        /\ adjustment_count' = adjustment_count + 1
        /\ total_adjustments' = total_adjustments
                                    + Abs(adjustment.new_spread - current_spread)
        /\ ret' = Ret(op, TRUE, "", adjustment)
        /\ UNCHANGED <<now, riskVars, stratVars, secVars, exceptSpread>>

SumSizes(levels) == Sum([i \in DOMAIN levels |-> levels[i].size])

\* _calculate_pressure_from_orderbook and _calculate_imbalance_from_orderbook
\* on books of at most five levels a side
book_imbalance(bids, asks) ==
    IF SumSizes(bids) + SumSizes(asks) = 0 THEN 0
    ELSE ((SumSizes(bids) - SumSizes(asks)) * 100) \div (SumSizes(bids) + SumSizes(asks))

calculate_optimal_spread(market_id, bids, asks, recent_trades, volatility) ==
    LET best_bid == IF bids # << >> THEN bids[1].price ELSE 0
        best_ask == IF asks # << >> THEN asks[1].price ELSE 1000000
        current_spread == IF best_bid > 0 THEN best_ask - best_bid ELSE base_spread
    IN  /\ Len(bids) <= 5 /\ Len(asks) <= 5 /\ Len(recent_trades) <= 20
        /\ calculate_adjustment("calculate_optimal_spread", market_id,
               MarketCondition(volatility, SumSizes(bids) + SumSizes(asks),
                               SumSizes(recent_trades), book_imbalance(bids, asks),
                               100, book_imbalance(bids, asks)),
               current_spread)

spread_reset ==
    /\ spread_history' = << >>
    /\ adjustment_count' = 0
    /\ total_adjustments' = 0
    /\ ret' = Ret("reset", TRUE, "", 0)
    /\ UNCHANGED <<now, riskVars, stratVars, secVars, exceptSpread>>

Volatilities == {0, 75, 200, 2000}
Liquidities == {0, 600, 1000}
Volumes == {0, 20000}
Pressures == {0, 100}
CurrentSpreads == {3000, 20000, 100000, 500000}
Level(price, size) == [size |-> size, price |-> price]
BidBooks == {<< >>, <<Level(400000, 300)>>, <<Level(490000, 100)>>}
AskBooks == {<< >>, <<Level(510000, 100)>>, <<Level(600000, 300)>>}
TradeLists == {<< >>, <<Level(500000, 20000)>>}

\* the spread the last call returned, when there is one
FedBack ==
    IF "m1" \in DOMAIN spread_history
    THEN {spread_history["m1"][Len(spread_history["m1"])]}
    ELSE {}

NextSpread ==
    \/ \E volatility \in Volatilities, liquidity \in Liquidities, volume \in Volumes,
          pressure \in Pressures, current_spread \in CurrentSpreads \cup FedBack :
           calculate_adjustment("calculate_adjustment", "m1",
               MarketCondition(volatility, liquidity, volume, pressure, 100, 0),
               current_spread)
    \/ \E bids \in BidBooks, asks \in AskBooks, recent_trades \in TradeLists,
          volatility \in Volatilities :
           calculate_optimal_spread("m1", bids, asks, recent_trades, volatility)
    \/ spread_reset

SpecSpread == Init /\ [][NextSpread]_vars

----------------------------------------------------------------------------
(* Claims about EnhancedRiskManager, checked under Spec *)

IsCheck(r) == r.op = "check_can_trade"

\* seconds really elapsed since the trip (not the .seconds component)
SinceTrip == now - circuit_breaker_triggered_at

\* C1: once daily_pnl < -max_daily_loss has held, every check_can_trade is
\* rejected, for every size, until reset_circuit_breaker is called.
C1_LossLatch == (loss_breached /\ IsCheck(ret)) => ~ret.ok

\* C4: while the breaker is open and fewer than circuit_breaker_cooldown seconds
\* have elapsed since the trip, every check_can_trade is rejected and leaves the
\* breaker open; open -> half_open happens only in check_can_trade, and only
\* once the cooldown has elapsed.
C4_CooldownStep ==
    /\ (/\ circuit_breaker_state = OPEN
        /\ SinceTrip < circuit_breaker_cooldown
        /\ IsCheck(ret'))
       => (~ret'.ok /\ circuit_breaker_state' = OPEN)
    /\ (circuit_breaker_state = OPEN /\ circuit_breaker_state' = HALF_OPEN)
       => (/\ IsCheck(ret')
           /\ circuit_breaker_triggered_at # None
           /\ SinceTrip >= circuit_breaker_cooldown)
C4_Cooldown == [][C4_CooldownStep]_vars

\* a check was refused by the open breaker one second before the cooldown ends
C4_Witness ==
    /\ IsCheck(ret)
    /\ ret.reason = "breaker"
    /\ circuit_breaker_state = OPEN
    /\ SinceTrip = circuit_breaker_cooldown - 1

\* C5: a check_can_trade made at any time >= trip + circuit_breaker_cooldown,
\* however much later, is not answered with the breaker-open rejection.
C5_RecoversStep ==
    (/\ circuit_breaker_state = OPEN
     /\ circuit_breaker_triggered_at # None
     /\ SinceTrip >= circuit_breaker_cooldown
     /\ IsCheck(ret'))
    => ret'.reason # "breaker"
C5_Recovers == [][C5_RecoversStep]_vars

\* C6: a check_can_trade that is admitted while the breaker is half_open leaves
\* the breaker closed.
C6_TrialClosesStep ==
    (circuit_breaker_state = HALF_OPEN /\ IsCheck(ret') /\ ret'.ok)
    => circuit_breaker_state' = CLOSED
C6_TrialCloses == [][C6_TrialClosesStep]_vars

\* C7: a check_can_trade that is rejected while the breaker is half_open, or in
\* the call that moved it to half_open, leaves the breaker open.
C7_FailedTrialOpensStep ==
    (/\ IsCheck(ret')
     /\ ~ret'.ok
     /\ \/ circuit_breaker_state = HALF_OPEN
        \/ (circuit_breaker_state = OPEN /\ ret'.reason # "breaker"))
    => circuit_breaker_state' = OPEN
C7_FailedTrialOpens == [][C7_FailedTrialOpensStep]_vars

\* C8: when check_can_trade(size) returns (True, OK) the breaker is not open, no
\* volatility pause is active, cooldown_after_trade seconds have passed since
\* the last open/close, size <= max_position_size, daily_pnl >= -max_daily_loss
\* and the drawdown from a positive peak_pnl is at most max_drawdown.
C8_Admission ==
    (IsCheck(ret) /\ ret.ok) =>
        /\ circuit_breaker_state # OPEN
        /\ (volatility_paused_until = None \/ now >= volatility_paused_until)
        /\ (last_trade_time = None \/ now - last_trade_time >= cooldown_after_trade)
        /\ ret.arg <= max_position_size
        /\ daily_pnl >= 0 - max_daily_loss
        /\ (peak_pnl > 0 => (peak_pnl - daily_pnl) * 100 <= max_drawdown * peak_pnl)

\* a check admitted after trades, a pause and a profit, with the breaker on trial
C8_Witness ==
    /\ IsCheck(ret)
    /\ ret.ok
    /\ ret.arg = max_position_size
    /\ last_trade_time # None
    /\ volatility_paused_until # None
    /\ peak_pnl > 0
    /\ daily_pnl < peak_pnl
    /\ circuit_breaker_state = HALF_OPEN

\* C9: while the stop-loss (take-profit) condition keeps holding over consecutive
\* update_position calls on a position, its alert is appended at most once.
C9_OneShotStep ==
    (/\ ret.op = "update_position"
     /\ ret'.op = "update_position"
     /\ ret'.token = ret.token
     /\ ret.reason \in {"high", "low"}
     /\ ret'.reason = ret.reason)
    => alerts' = alerts
C9_OneShot == [][C9_OneShotStep]_vars

\* C10: an update_position that leaves the profit above the trailing activation
\* threshold and below take-profit, at a price more than trailing_stop_pct below
\* the highest price seen before, returns the trailing-stop alert.
C10_TrailingStep ==
    \A t \in Tokens :
        (/\ ret'.op = "update_position"
         /\ ret'.token = t
         /\ t \in DOMAIN positions
         /\ pnl_pct(positions'[t]).num * 100
              > trailing_activation_pct * pnl_pct(positions'[t]).den
         /\ ~take_profit_hit(positions'[t])
         /\ (highest_price[t] - positions'[t].current_price) * 100
              > trailing_stop_pct * highest_price[t])
        => (ret'.reason = "medium" /\ alerts' = Append(alerts, TrailingStopAlert))
C10_Trailing == [][C10_TrailingStep]_vars

----------------------------------------------------------------------------
(* Claims about the strategies and the risk gate, checked under SpecGate *)

Emitted(r) ==
    \/ (r.op = "handle_order_fill" /\ r.ok)
    \/ (r.op = "execute_arbitrage" /\ r.ok)

\* C2: no hedge action is emitted by handle_order_fill and no arbitrage is
\* executed by execute_arbitrage while the circuit breaker is open.
C2_Gated == Emitted(ret) => circuit_breaker_state # OPEN

----------------------------------------------------------------------------
(* Claims about TransactionSecurity, checked under SpecSec *)

\* C3: while an emergency stop is in force (emergency_stop was called and
\* CircuitBreaker.reset has not been called since), no validate_transaction
\* call returns approved.
C3_StopWins == (stop_in_force /\ ret.op = "validate_transaction") => ~ret.ok

----------------------------------------------------------------------------
(* Claims about concurrent callers of the risk manager, checked under SpecConc *)

\* C11: concurrent close_position calls leave the state of some serial order:
\* once every call has returned, daily_pnl is the sum of the pnl of all closed
\* positions and peak_pnl is not below it (no lost update).
C11_NoLostUpdate == AllIdle => (daily_pnl = Sum(realized) /\ peak_pnl >= daily_pnl)

----------------------------------------------------------------------------
(* Claims about UnifiedMarketMakerStrategy, checked under SpecMM *)

\* |yes - no| / ((yes + no) / 2) > tolerance, for yes + no > 0
Imbalanced(yes, no) ==
    /\ yes + no > 0
    /\ Abs(yes - no) * 200 > tolerance * (yes + no)

IsFill(r) == r.op = "handle_order_fill"

\* C12: the hedge decision of every fill of a market is computed from the
\* yes / no amounts the earlier fills of that market left.
C12_FillOrderStep ==
    \A m \in Markets :
        (IsFill(ret') /\ filled_amounts'[m] # filled_amounts[m])
        => /\ get_position_for_market(m).yes_amount = filled_amounts[m].yes
           /\ get_position_for_market(m).no_amount = filled_amounts[m].no
C14_NoCancelStep ==
    IsFill(ret') =>
        /\ mm_positions' = mm_positions
        /\ active_orders' = active_orders
        /\ ret'.reason \in {"BUY_YES", "BUY_NO", "NONE"}
C14_NoCancel == [][C14_NoCancelStep]_vars

\* a fill was hedged while a position was stored
C14_Witness ==
    /\ IsFill(ret)
    /\ ret.ok
    /\ mm_positions # << >>

\* C15: analyze returns EMPTY exactly for yes + no = 0, HEDGED exactly for an
\* inventory whose imbalance exceeds the tolerance, DUAL_TRACK exactly for a
\* balanced position of at least min_hedge_size, and asks for buy and sell
\* quotes with a positive sell size only in DUAL_TRACK.
C15_Classify ==
    ret.op = "analyze" =>
        LET r == ret.arg
            total == r.yes_shares + r.no_shares
            imbalanced == Imbalanced(r.yes_shares, r.no_shares)
        IN  /\ r.state = "EMPTY" <=> total = 0
            /\ r.state = "HEDGED" <=> (total > 0 /\ imbalanced)
            /\ r.state = "DUAL_TRACK" <=> (~imbalanced /\ total >= min_hedge_size)
            /\ (r.should_place_buy_orders /\ r.should_place_sell_orders
                    /\ r.sell_order_size > 0) => r.state = "DUAL_TRACK"

----------------------------------------------------------------------------
(* Claims about SmartInventoryManager, checked under SpecInv *)

IsHedge(r) == r.op = "execute_hedge" /\ r.ok
LastHedge == hedge_history[Len(hedge_history)]

\* C16: every stored position has net_exposure = yes_amount - no_amount and
\* the risk_level that is the tier of |net_exposure| / max_position, after any
\* sequence of update_position and execute_hedge calls.
C16_Recomputed ==
    \A t \in DOMAIN inv_positions :
        LET p == inv_positions[t]
        IN  /\ p.net_exposure = p.yes_amount - p.no_amount
            /\ p.risk_level = risk_tier(p.yes_amount - p.no_amount, p.max_position)

\* a partial hedge has just moved a position to another tier
C16_Witness ==
    /\ IsHedge(ret)
    /\ hedge_history # << >>
    /\ LastHedge.exposure_after # 0
    /\ LastHedge.exposure_after # LastHedge.exposure_before
    /\ risk_tier(LastHedge.exposure_after, max_position)
           # risk_tier(LastHedge.exposure_before, max_position)

\* C17: yes_amount >= 0 and no_amount >= 0 for every stored position.
C17_NonNegative ==
    \A t \in DOMAIN inv_positions :
        inv_positions[t].yes_amount >= 0 /\ inv_positions[t].no_amount >= 0

\* C18: the risk_level of every stored position is LOW for ratio < 0.5, MEDIUM
\* for 0.5 <= ratio < 0.7, HIGH for 0.7 <= ratio < 0.9 and CRITICAL for
\* ratio >= 0.9, where ratio = |net_exposure| / max_position.
C18_Tiers ==
    \A t \in DOMAIN inv_positions :
        LET p == inv_positions[t]
            ratio100 == Abs(p.net_exposure) * 100
        IN  p.risk_level =
                IF ratio100 < 50 * p.max_position THEN "LOW"
                ELSE IF ratio100 < 70 * p.max_position THEN "MEDIUM"
                ELSE IF ratio100 < 90 * p.max_position THEN "HIGH"
                ELSE "CRITICAL"

\* C19: get_hedge_recommendation says should_hedge exactly when
\* |net_exposure| / max_position >= hedge_threshold, with amount
\* |net_exposure| * hedge_ratio, and an execute_hedge given the recommended
\* side and amount strictly decreases |net_exposure|.
C19_RecommendStep ==
    /\ (ret'.op = "get_hedge_recommendation" /\ ret'.token \in DOMAIN inv_positions)
       => LET p == inv_positions[ret'.token]
          IN  /\ ret'.arg.should_hedge
                     <=> Abs(p.net_exposure) * 100 >= hedge_threshold * p.max_position
              /\ ret'.arg.should_hedge
                     => /\ ret'.arg.amount * 100 = Abs(p.net_exposure) * hedge_ratio
                        /\ ret'.arg.side = (IF p.net_exposure > 0 THEN "SELL" ELSE "BUY")
    /\ (/\ IsHedge(ret')
        /\ hedge_recommendation(ret'.token).should_hedge
        /\ ret'.arg.side = hedge_recommendation(ret'.token).side
        /\ ret'.arg.amount = hedge_recommendation(ret'.token).amount)
       => Abs(inv_positions'[ret'.token].net_exposure)
              < Abs(inv_positions[ret'.token].net_exposure)
C19_Recommend == [][C19_RecommendStep]_vars

\* the recommended BUY of a NO-heavy position has been executed
C19_Witness ==
    /\ IsHedge(ret)
    /\ hedge_history # << >>
    /\ LastHedge.exposure_before * 100 <= 0 - hedge_threshold * max_position
    /\ LastHedge.side = "BUY"
    /\ LastHedge.amount * 100 = Abs(LastHedge.exposure_before) * hedge_ratio
    /\ Abs(LastHedge.exposure_after) < Abs(LastHedge.exposure_before)

\* C20: execute_hedge with amount = |net_exposure|, for either side and either
\* sign of net_exposure, leaves net_exposure = 0 and risk_level LOW.
C20_FullHedgeStep ==
    (/\ IsHedge(ret')
     /\ ret'.token \in DOMAIN inv_positions
     /\ ret'.arg.amount = Abs(inv_positions[ret'.token].net_exposure))
    => /\ inv_positions'[ret'.token].net_exposure = 0
       /\ inv_positions'[ret'.token].yes_amount = inv_positions'[ret'.token].no_amount
       /\ inv_positions'[ret'.token].risk_level = "LOW"
C20_FullHedge == [][C20_FullHedgeStep]_vars

\* a NO-heavy position has been fully corrected by a SELL
C20_Witness ==
    /\ IsHedge(ret)
    /\ hedge_history # << >>
    /\ LastHedge.exposure_before < 0
    /\ LastHedge.side = "SELL"
    /\ LastHedge.amount = Abs(LastHedge.exposure_before)
    /\ LastHedge.exposure_after = 0

----------------------------------------------------------------------------
(* Claims about TransactionSecurity, checked under SpecSec *)

\* C27: validate_transaction returns a structured approved / rejected result
\* with a reason for every amount and every hot-wallet balance >= 0, balance 0
\* included, in every breaker status: it never raises.
C27_NeverRaises ==
    ret.op = "validate_transaction" =>
        /\ ret.reason # "ZeroDivisionError"
        /\ ~ret.ok => ret.reason # ""

----------------------------------------------------------------------------
(* Claims about CrossPlatformArbitrage, checked under SpecArb *)

IsCrossScan(r) == r.op = "find_cross_platform_opportunities"
IsIntraScan(r) == r.op = "find_intra_platform_opportunities"
MarketAt(key) == markets[key[1]][MarketIndex(key[1], key[2])]
NonIncreasing(opps) ==
    \A i, j \in DOMAIN opps :
        i < j => ~LessF(opps[i].profit_pct, opps[j].profit_pct)
TopN == 2                           \* the N of the fixed top-N

\* C21: the stored result set holds the opportunities the intra-venue scan
\* found as well as the cross-venue ones.
C21_Merged ==
    IsIntraScan(ret) =>
        \A i \in DOMAIN ret.arg :
            \E j \in DOMAIN opportunities : opportunities[j] = ret.arg[i]

\* C22: after every scan the stored result set is ordered by profit_pct
\* non-increasing and holds at most TopN entries, and
\* get_top_opportunities(limit) returns the limit highest-profit stored
\* opportunities in non-increasing order.
C22_TopN ==
    /\ IsCrossScan(ret) =>
           NonIncreasing(opportunities) /\ Len(opportunities) <= TopN
    /\ ret.op = "get_top_opportunities" =>
           /\ NonIncreasing(ret.arg.top)
           /\ Len(ret.arg.top) = Min(ret.arg.limit, Len(opportunities))
           /\ \A i \in DOMAIN ret.arg.top :
                  Cardinality({j \in DOMAIN opportunities :
                                   LessF(ret.arg.top[i].profit_pct,
                                         opportunities[j].profit_pct)}) < i

\* the pairs of markets a cross-venue scan reports: different venues, taken in
\* the order of the enum, similar questions, price gap above cost plus minimum
QualifyingPairs ==
    UNION {UNION {{<<a, b>> : a \in {<<p, i>> : i \in DOMAIN markets[PlatformOrder[p]]},
                              b \in {<<q, j>> : j \in DOMAIN markets[PlatformOrder[q]]}}
                  : q \in {x \in DOMAIN PlatformOrder : x > p}}
           : p \in DOMAIN PlatformOrder}

Qualifies(pair) ==
    LET a == markets[PlatformOrder[pair[1][1]]][pair[1][2]]
        b == markets[PlatformOrder[pair[2][1]]][pair[2][2]]
        words_a == normalize(a.question)
        words_b == normalize(b.question)
    IN  /\ words_a # {} /\ words_b # {}
        /\ Cardinality(words_a \cap words_b) * 100
               >= min_similarity * Cardinality(words_a \cup words_b)
        /\ Abs(a.yes_price - b.yes_price) > 72 + min_profit_pct

\* C23: a scan stores exactly the opportunities of the markets as they are at
\* the scan, none carried over from an earlier scan, and a scan that follows
\* a scan with no market change in between yields the same sequence.
C23_ReplacesStep ==
    IsCrossScan(ret') =>
        /\ opportunities' = ret'.arg
        /\ \A i \in DOMAIN opportunities' :
               LET o == opportunities'[i]
               IN  /\ MarketIndex(o.market_a[1], o.market_a[2]) # 0
                   /\ MarketIndex(o.market_b[1], o.market_b[2]) # 0
                   /\ o.details.yes_price_a = MarketAt(o.market_a).yes_price
                   /\ o.details.yes_price_b = MarketAt(o.market_b).yes_price
        /\ Len(opportunities') = Cardinality({pair \in QualifyingPairs : Qualifies(pair)})
        /\ IsCrossScan(ret) =>
               [i \in DOMAIN ret'.arg |->
                    <<ret'.arg[i].opportunity_id, ret'.arg[i].profit_pct, ret'.arg[i].action>>]
               = [i \in DOMAIN ret.arg |->
                    <<ret.arg[i].opportunity_id, ret.arg[i].profit_pct, ret.arg[i].action>>]
C23_Replaces == [][C23_ReplacesStep]_vars

\* a scan has stored two opportunities of different profit
C23_Witness ==
    /\ IsCrossScan(ret)
    /\ Len(opportunities) >= 2
    /\ LessF(opportunities[2].profit_pct, opportunities[1].profit_pct)

\* C24: the intra-venue scan reports a market exactly when
\* |yes + no - 1| minus the fee cost of the two legs is at least
\* min_profit_pct, with that net profit as the reported profit.
C24_IntraNet ==
    IsIntraScan(ret) =>
        \A i \in DOMAIN markets[ret.token] :
            LET market == markets[ret.token][i]
                net == Abs(market.yes_price + market.no_price - 1000)
                           - 2 * (fee_bps \div 10)
                reported == {k \in DOMAIN ret.arg :
                                 ret.arg[k].market_a = MarketKey(market)}
            IN  /\ reported # {} <=> net >= min_profit_pct
                /\ Cardinality(reported) <= 1
                /\ \A k \in reported : ret.arg[k].profit_pct = Fraction(net, 1000)

\* C25: every cross-venue opportunity of a scan pairs two markets of
\* different venues with question similarity >= min_similarity, no pair
\* twice; its profit is |yes_A - yes_B| - (2 fee + 2 slippage + transfer cost),
\* at least min_profit_pct, and it buys YES on the venue of the lower yes
\* price and sells YES on the other.
C25_Cross ==
    IsCrossScan(ret) =>
        /\ \A i \in DOMAIN ret.arg :
               LET o == ret.arg[i]
                   a == MarketAt(o.market_a)
                   b == MarketAt(o.market_b)
                   gap == Abs(a.yes_price - b.yes_price)
                   cost == 2 * (fee_bps \div 10) + 2 * (slippage_bps \div 10)
                               + transfer_cost
                   cheap == IF a.yes_price < b.yes_price THEN a ELSE b
                   dear == IF a.yes_price < b.yes_price THEN b ELSE a
               IN  /\ a.platform # b.platform
                   /\ ~LessF(_calculate_similarity(a.question, b.question),
                             Fraction(min_similarity, 100))
                   /\ o.profit_pct = Fraction(gap - cost, 1000)
                   /\ gap - cost >= min_profit_pct
                   /\ cheap.yes_price < dear.yes_price
                   /\ o.action = <<"BUY_YES", cheap.platform, "SELL_YES", dear.platform>>
        /\ \A i, j \in DOMAIN ret.arg :
               i # j => {ret.arg[i].market_a, ret.arg[i].market_b}
                            # {ret.arg[j].market_a, ret.arg[j].market_b}

\* a scan has reported a pair whose first venue is cheaper and a pair whose
\* second venue is cheaper
C25_Witness ==
    /\ IsCrossScan(ret)
    /\ \E i, j \in DOMAIN ret.arg :
           ret.arg[i].details.price_diff < 0 /\ ret.arg[j].details.price_diff > 0

----------------------------------------------------------------------------
(* Claims about the pricing model, checked under SpecPricing *)

PricingOps == {"binary_call_price", "binary_put_price", "greek",
               "price_binary_option", "implied_volatility",
               "historical_volatility", "analyze_market"}

\* C26: no pricing or analytics call raises, whatever its inputs: S <= 0,
\* K <= 0, sigma <= 0, T <= 0 and a bracket without a root included
C26_PricingTotal ==
    ret.op \in PricingOps => ret.arg.result.raised = ""

\* C28: every theoretical price returned lies in [0.001, 0.999], for T <= 0
\* and sigma <= 0 too, and so is never exactly 0 or 1
C28_Clamped ==
    /\ ret.op \in {"binary_call_price", "binary_put_price"} /\ ret.ok
           => ret.arg.result.value >= 1000 /\ ret.arg.result.value <= 999000
    /\ ret.op = "price_binary_option" /\ ret.ok
           => /\ ret.arg.result.theoretical_price >= 1000
              /\ ret.arg.result.theoretical_price <= 999000

\* C29: for S > 0, K > 0, T > 0 and sigma > 0 the call and the put price of
\* the same inputs add up to exp(-r T), within the rounding of the two
\* products (one thousandth of a probability each)
C29_Parity ==
    (/\ ret.op = "analyze_market" /\ ret.ok
     /\ ret.arg.inputs[1] > 0 /\ ret.arg.inputs[2] > 0 /\ ret.arg.inputs[3] > 0)
        => Abs(ret.arg.result.yes.theoretical_price
                   + ret.arg.result.no.theoretical_price
                   - discount(ret.arg.inputs[3])) <= 2

ValidPoints(prices) == Cardinality({i \in DOMAIN prices : prices[i] > 0})

\* C30: historical_volatility returns the default 0.5 exactly when fewer than
\* two price points are valid, and for two or more valid positive prices it
\* returns the sample deviation of the log-returns, which is positive
C30_DefaultOnlyWhenShort ==
    ret.op = "historical_volatility" =>
        /\ ret.arg.result.default <=> ValidPoints(ret.arg.inputs[1]) < 2
        /\ ValidPoints(ret.arg.inputs[1]) >= 2
               => ~ret.arg.result.default /\ ~ret.arg.result.zero

----------------------------------------------------------------------------
(* Claims about DynamicSpreadCalculator, checked under SpecSpread *)

IsAdjustment(r) == r.op \in {"calculate_adjustment", "calculate_optimal_spread"}

\* C31: the new_spread of every adjustment lies in [min_spread, max_spread],
\* whatever the market condition and the current spread, a current spread
\* outside the bounds and a fed-back one included
C31_Bounded ==
    IsAdjustment(ret) =>
        ret.arg.new_spread >= min_spread /\ ret.arg.new_spread <= max_spread

\* C32: with volatility above the high-volatility threshold, liquidity below
\* the low-liquidity threshold, the other factors neutral and a current
\* spread below max_spread, the new spread is strictly greater than the
\* current one and the confidence is above 0.5
C32_Widens ==
    (/\ ret.op = "calculate_adjustment"
     /\ ret.arg.condition.volatility > 100
     /\ ret.arg.condition.liquidity < 1000
     /\ \A i \in 3..6 : ret.arg.factors[i] = 0
     /\ ret.arg.current_spread < max_spread)
        => /\ ret.arg.new_spread > ret.arg.current_spread
           /\ ret.arg.confidence > 50

----------------------------------------------------------------------------
(* Claims about EnhancedRiskManager's PnL and breaker, checked under Spec *)

IsClose(r) == r.op = "close_position" /\ r.ok

\* C34: peak_pnl >= max(0, daily_pnl) in every state, peak_pnl never decreases,
\* and daily_pnl changes only in close_position, by the PnL of the position
\* it closes
C34_PeakStep ==
    /\ peak_pnl >= Max(0, daily_pnl)
    /\ peak_pnl' >= Max(0, daily_pnl')
    /\ peak_pnl' >= peak_pnl
    /\ daily_pnl' # daily_pnl
           => /\ IsClose(ret')
              /\ ret'.token \in DOMAIN positions
              /\ ret'.token \notin DOMAIN positions'
              /\ daily_pnl' = daily_pnl + pnl(positions[ret'.token])
C34_Peak == [][C34_PeakStep]_vars

\* a losing close after a gain: daily_pnl has fallen below a positive peak
C34_Witness ==
    IsClose(ret) /\ peak_pnl > 0 /\ daily_pnl < peak_pnl

\* C35: close_position opens the breaker and restarts its timer exactly when
\* the resulting daily_pnl < -(circuit_breaker_threshold * max_daily_loss);
\* every other close leaves the breaker as it was, open and half-open
\* included
C35_CloseStep ==
    ret'.op = "close_position" =>
        IF IsClose(ret')
              /\ daily_pnl' * 100 < 0 - circuit_breaker_threshold * max_daily_loss
        THEN /\ circuit_breaker_state' = OPEN
             /\ circuit_breaker_triggered_at' = now'
        ELSE /\ circuit_breaker_state' = circuit_breaker_state
             /\ circuit_breaker_triggered_at' = circuit_breaker_triggered_at
C35_Close == [][C35_CloseStep]_vars

\* a close that ends at a loss has opened the breaker at this instant, after
\* an earlier trip at another time
C35_Witness ==
    /\ IsClose(ret)
    /\ daily_pnl < 0
    /\ circuit_breaker_state = OPEN
    /\ circuit_breaker_triggered_at = now
    /\ now > 0

\* a profitable close has left an open breaker open
C35_WitnessKept ==
    /\ IsClose(ret)
    /\ daily_pnl > 0
    /\ circuit_breaker_state = OPEN
    /\ circuit_breaker_triggered_at # now

----------------------------------------------------------------------------
(* The core package: the legacy RiskManager, the construction of          *)
(* EnhancedRiskManager and the import of the package                      *)

(* config.trading, the defaults of TradingConfig *)
MAX_POSITION_SIZE == 100
MAX_DAILY_LOSS == 50
STOP_LOSS_PCT == 30                 \* percent
TAKE_PROFIT_PCT == 20               \* percent

\* the names bound in core/enhanced_risk_manager.py when a method body runs:
\* its imports, its classes and the singleton once line 372 has run
module_globals ==
    {"Dict", "List", "Optional", "Callable", "dataclass", "field", "datetime",
     "timedelta", "Enum", "deque", "logger", "RiskLevel", "CircuitBreakerState",
     "Position", "RiskAlert", "RiskConfig", "EnhancedRiskManager"}
      \cup (IF enhanced_risk_manager = << >> THEN {} ELSE {"enhanced_risk_manager"})

\* the evaluation of a global name
LOAD_GLOBAL(name) ==
    IF name \in module_globals THEN Returned(name) ELSE Raised("NameError")

\* the attributes __init__ gives the object (the callbacks and the empty
\* price_history left out)
NewRiskManager ==
    [positions |-> << >>, daily_pnl |-> 0, peak_pnl |-> 0,
     circuit_breaker_state |-> CLOSED, circuit_breaker_triggered_at |-> None,
     volatility_paused_until |-> None, last_cancel_time |-> None,
     last_trade_time |-> None, alerts |-> << >>]

\* EnhancedRiskManager(config): line 107 reads CircuitBreaker.CLOSED
EnhancedRiskManager_init ==
    IF LOAD_GLOBAL("CircuitBreaker").raised # ""
    THEN Raised(LOAD_GLOBAL("CircuitBreaker").raised)
    ELSE Returned(NewRiskManager)

EnhancedRiskManager_new ==
    /\ ret' = Ret("EnhancedRiskManager", EnhancedRiskManager_init.raised = "",
                  EnhancedRiskManager_init.raised, EnhancedRiskManager_init.value)
    /\ UNCHANGED <<now, riskVars, stratVars, secVars, extVars>>

\* the first import of a module runs its body; a body that raises leaves the
\* module out of sys.modules
import_risk_manager ==
    /\ sys_modules' = sys_modules \cup {"core.risk_manager"}
    /\ ret' = Ret("import", TRUE, "", "core.risk_manager")
    /\ UNCHANGED <<now, riskVars, stratVars, secVars, exceptCore,
                   rm_positions, rm_daily_pnl, rm_alerts, enhanced_risk_manager>>

import_enhanced_risk_manager(name) ==
    IF "core.enhanced_risk_manager" \in sys_modules
    THEN /\ ret' = Ret("import", TRUE, "", name)
         /\ UNCHANGED <<sys_modules, enhanced_risk_manager>>
    ELSE IF EnhancedRiskManager_init.raised # ""
    THEN /\ ret' = Ret("import", FALSE, EnhancedRiskManager_init.raised, name)
         /\ UNCHANGED <<sys_modules, enhanced_risk_manager>>
    ELSE /\ sys_modules' = sys_modules \cup {"core.enhanced_risk_manager"}
         /\ enhanced_risk_manager' = <<EnhancedRiskManager_init.value>>
         /\ ret' = Ret("import", TRUE, "", name)

\* import core: core/__init__.py imports core.risk_manager and then
\* core.enhanced_risk_manager; the modules bound before the one that raises stay
import_core ==
    IF "core" \in sys_modules
    THEN /\ ret' = Ret("import", TRUE, "", "core")
         /\ UNCHANGED <<now, riskVars, stratVars, secVars, extVars>>
    ELSE /\ IF "core.enhanced_risk_manager" \notin sys_modules
               /\ EnhancedRiskManager_init.raised # ""
            THEN /\ sys_modules' = sys_modules \cup {"core.risk_manager"}
                 /\ enhanced_risk_manager' = enhanced_risk_manager
                 /\ ret' = Ret("import", FALSE, EnhancedRiskManager_init.raised, "core")
            ELSE /\ sys_modules' = sys_modules \cup
                       {"core", "core.risk_manager", "core.enhanced_risk_manager"}
                 /\ enhanced_risk_manager' =
                       IF "core.enhanced_risk_manager" \in sys_modules
                       THEN enhanced_risk_manager
                       ELSE <<EnhancedRiskManager_init.value>>
                 /\ ret' = Ret("import", TRUE, "", "core")
         /\ UNCHANGED <<now, riskVars, stratVars, secVars, exceptCore,
                        rm_positions, rm_daily_pnl, rm_alerts>>

\* loss_ratio = abs(daily_pnl) / max_daily_loss if max_daily_loss > 0 else 0,
\* and the level read off it
loss_ratio_level(pnl_now, limit) ==
    LET loss_ratio == IF limit > 0 THEN Fraction(Abs(pnl_now), limit)
                                   ELSE Fraction(0, 1)
    IN  IF AtLeastPct(loss_ratio, 100) THEN "critical"
        ELSE IF AtLeastPct(loss_ratio, 75) THEN "high"
        ELSE IF AtLeastPct(loss_ratio, 50) THEN "medium"
        ELSE "low"

\* EnhancedRiskManager.get_risk_level: the level, and what decided it
get_risk_level ==
    /\ ret' = IF circuit_breaker_state = OPEN
              THEN Ret("get_risk_level", TRUE, "critical", "circuit_breaker")
              ELSE IF volatility_paused_until # None /\ now < volatility_paused_until
              THEN Ret("get_risk_level", TRUE, "high", "volatility")
              ELSE Ret("get_risk_level", TRUE,
                       loss_ratio_level(daily_pnl, max_daily_loss), "daily_pnl")
    /\ UNCHANGED <<now, riskVars, stratVars, secVars, extVars>>

RiskManager_check_can_trade(size) ==
    /\ ret' = IF size > MAX_POSITION_SIZE
              THEN Ret("RiskManager.check_can_trade", FALSE, "size", size)
              ELSE IF rm_daily_pnl < 0 - MAX_DAILY_LOSS
              THEN Ret("RiskManager.check_can_trade", FALSE, "daily_loss", size)
              ELSE Ret("RiskManager.check_can_trade", TRUE, "OK", size)
    /\ UNCHANGED <<now, riskVars, stratVars, secVars, extVars>>

RiskManager_open_position(token_id, side, size, price) ==
    /\ rm_positions' = Put(rm_positions, token_id, Position(side, size, price))
    /\ ret' = RetT("RiskManager.open_position", token_id, TRUE, "position")
    /\ UNCHANGED <<now, riskVars, stratVars, secVars, exceptCore,
                   rm_daily_pnl, rm_alerts, sys_modules, enhanced_risk_manager>>

\* the alert RiskManager.update_position raises for the position as updated
RiskManager_alert(p) ==
    IF pnl_pct(p).num * 100 <= (0 - STOP_LOSS_PCT) * pnl_pct(p).den
    THEN StopLossAlert
    ELSE IF pnl_pct(p).num * 100 >= TAKE_PROFIT_PCT * pnl_pct(p).den
    THEN TakeProfitAlert
    ELSE NoAlert

RiskManager_update_position(token_id, current_price) ==
    IF token_id \notin DOMAIN rm_positions
    THEN /\ ret' = RetT("RiskManager.update_position", token_id, FALSE, "no_position")
         /\ UNCHANGED <<now, riskVars, stratVars, secVars, extVars>>
    ELSE LET position == [rm_positions[token_id] EXCEPT !.current_price = current_price]
             alert == RiskManager_alert(position)
         IN  /\ rm_positions' = [rm_positions EXCEPT ![token_id] = position]
             /\ rm_alerts' = IF alert = NoAlert THEN rm_alerts
                                                ELSE Append(rm_alerts, alert)
             /\ Len(rm_alerts') <= MaxAlerts
             /\ ret' = RetT("RiskManager.update_position", token_id,
                            alert # NoAlert, alert.level)
             /\ UNCHANGED <<now, riskVars, stratVars, secVars, exceptCore,
                            rm_daily_pnl, sys_modules, enhanced_risk_manager>>

RiskManager_close_position(token_id) ==
    IF token_id \notin DOMAIN rm_positions
    THEN /\ ret' = RetT("RiskManager.close_position", token_id, FALSE, "no_position")
         /\ UNCHANGED <<now, riskVars, stratVars, secVars, extVars>>
    ELSE /\ Abs(rm_daily_pnl + pnl(rm_positions[token_id])) <= PnlCap
         /\ rm_positions' = Remove(rm_positions, token_id)
         /\ rm_daily_pnl' = rm_daily_pnl + pnl(rm_positions[token_id])
         /\ ret' = RetT("RiskManager.close_position", token_id, TRUE, "position")
         /\ UNCHANGED <<now, riskVars, stratVars, secVars, exceptCore,
                        rm_alerts, sys_modules, enhanced_risk_manager>>

RiskManager_get_risk_level ==
    /\ ret' = Ret("RiskManager.get_risk_level", TRUE,
                  loss_ratio_level(rm_daily_pnl, MAX_DAILY_LOSS), "daily_pnl")
    /\ UNCHANGED <<now, riskVars, stratVars, secVars, extVars>>

NextCore ==
    \/ EnhancedRiskManager_new
    \/ import_risk_manager
    \/ /\ import_enhanced_risk_manager("core.enhanced_risk_manager")
       /\ UNCHANGED <<now, riskVars, stratVars, secVars, exceptCore,
                      rm_positions, rm_daily_pnl, rm_alerts>>
    \/ import_core
    \/ CheckCanTrade
    \/ get_risk_level
    \/ \E size \in CheckSizes : RiskManager_check_can_trade(size)
    \/ \E t \in Tokens, size \in OpenSizes, price \in EntryPrices :
           RiskManager_open_position(t, "BUY", size, price)
    \/ \E t \in Tokens, price \in Prices : RiskManager_update_position(t, price)
    \/ \E t \in Tokens : RiskManager_close_position(t)
    \/ RiskManager_get_risk_level

SpecCore == Init /\ [][NextCore]_vars

----------------------------------------------------------------------------
(* Claims about the core package, checked under SpecCore *)

\* the risk manager's own state is the state __init__ sets
FreshRiskManager ==
    /\ positions = << >> /\ daily_pnl = 0 /\ peak_pnl = 0
    /\ circuit_breaker_state = CLOSED /\ circuit_breaker_triggered_at = None
    /\ volatility_paused_until = None
    /\ last_cancel_time = None /\ last_trade_time = None

\* C33: constructing EnhancedRiskManager succeeds, also for the singleton bound
\* when the module is imported, and gives the initial state: breaker closed,
\* daily_pnl 0, peak_pnl 0, no position, no pause, no timestamp; on that state
\* check_can_trade(size) admits every size <= max_position_size
C33_Constructs ==
    /\ ret.op = "EnhancedRiskManager"
           => /\ ret.ok
              /\ ret.arg.circuit_breaker_state = CLOSED
              /\ ret.arg.daily_pnl = 0 /\ ret.arg.peak_pnl = 0
              /\ ret.arg.positions = << >>
              /\ ret.arg.volatility_paused_until = None
              /\ ret.arg.circuit_breaker_triggered_at = None
              /\ ret.arg.last_cancel_time = None
              /\ ret.arg.last_trade_time = None
    /\ ret.op = "import" => ret.ok
    /\ "core.enhanced_risk_manager" \in sys_modules => enhanced_risk_manager # << >>
    /\ (ret.op = "check_can_trade" /\ FreshRiskManager
          /\ ret.arg <= max_position_size) => ret.ok

\* C37: the loss limits react to losses only: with daily_pnl >= 0 neither
\* risk manager's get_risk_level reports high or critical on account of the
\* PnL, and validate_transaction neither fails the daily-loss check nor trips
\* the breaker on the PnL condition
C37_LossOnly ==
    /\ (ret.op = "get_risk_level" /\ ret.arg = "daily_pnl" /\ daily_pnl >= 0)
           => ret.reason \notin {"high", "critical"}
    /\ (ret.op = "RiskManager.get_risk_level" /\ rm_daily_pnl >= 0)
           => ret.reason \notin {"high", "critical"}
    /\ (ret.op = "validate_transaction" /\ limiter_daily_pnl >= 0)
           => /\ ret.reason # "daily_loss"
              /\ ~(ret.reason = "tripped" /\ trigger_reason = "daily_loss"
                      /\ triggered_at = now)

----------------------------------------------------------------------------
(* Claims about the security circuit breaker's cooldown, checked under SpecSec *)

\* an automatic trip is in force and its cooldown has not run out
InCooldown ==
    /\ _resume_at # None
    /\ now < _resume_at
    /\ trigger_reason \in {"daily_loss", "drawdown"}

\* C36: after an automatic trip at t every validate_transaction before
\* t + circuit_breaker_cooldown is rejected, whatever the balance and the PnL
\* have become; until then the breaker is triggered or cooling down, and a
\* check does not move the resume time
C36_CooldownStep ==
    (InCooldown /\ ret'.op = "validate_transaction")
        => /\ ~ret'.ok
           /\ _resume_at' = _resume_at
           /\ status' \in {TRIGGERED, COOLDOWN, DISABLED}
C36_CooldownHolds == [][C36_CooldownStep]_vars

----------------------------------------------------------------------------
(* TransactionSecurity used by several callers: each validates its trade   *)
(* and records it once approved; the calls of different callers interleave *)

CallerAmounts == {100}
CallerBalances == {20000}

\* the number of events of a type in the log
Count(log, event_type) == Cardinality({i \in DOMAIN log : log[i] = event_type})

\* validations approved and not yet recorded
pending == Count(security_log, "approved") - Len(daily_trades)

CallerValidates ==
    /\ pending < MaxPending
    /\ Len(security_log) + 2 <= MaxVolumeLog
    /\ \E amount \in CallerAmounts : validate_transaction(amount)

CallerRecords ==
    /\ pending > 0
    /\ \E amount \in CallerAmounts : record_transaction(amount, 0)

CallerFunds == \E balance \in CallerBalances : update_balance(balance)

NextCallers ==
    \/ CallerValidates
    \/ CallerRecords
    \/ CallerFunds

SpecCallers == Init /\ [][NextCallers]_vars

\* C38: when every record_transaction follows an approved
\* validate_transaction of the same amount, the volume recorded today stays
\* within max_daily_volume_usd and the number of trades within
\* max_daily_trades, however the callers' calls interleave
C38_WithinLimits ==
    /\ SumAmounts(daily_trades) <= max_daily_volume_usd
    /\ Len(daily_trades) <= max_daily_trades

----------------------------------------------------------------------------
(* strategies/execution.py: ExecutionEngine with the ExecutionConfig      *)
(* defaults (strategy_type TAKER), prices in hundredths, PnL in           *)
(* hundredths of a dollar.  The cooldown is scaled to 2 s (default 10).   *)

PENDING == "pending"
FILLED == "filled"
CANCELLED == "cancelled"

exec_max_position_size == 100
exec_min_edge == 2                  \* hundredths
taker_slippage_bps == 50
exec_max_daily_trades == 50
exec_max_daily_loss == 100
exec_cooldown_after_trade == 2
taker_total_cost == 2               \* hundredths

time_time == Epoch + now

\* Order(order_id, market_id, side, price, size): status PENDING, nothing filled
Order(order_id, market_id, side, price, size) ==
    [status |-> PENDING, side |-> side, size |-> size, price |-> price,
     market_id |-> market_id, order_id |-> order_id, filled_price |-> None]

MarketState(market_id, yes_price, bid, ask) ==
    [market_id |-> market_id, yes_price |-> yes_price, bid |-> bid, ask |-> ask]

PricingResult(theoretical_price, edge) ==
    [theoretical_price |-> theoretical_price, edge |-> edge]

\* the side and price _execute_taker chooses
taker_side(pricing_result) ==
    IF pricing_result.edge > 0 THEN "buy_yes" ELSE "buy_no"

\* min(ask, theo_yes - taker_total_cost/2) or min(1 - bid, 1 - theo_yes - taker_total_cost/2)
taker_price(market_state, pricing_result) ==
    IF pricing_result.edge > 0
    THEN Min(market_state.ask, pricing_result.theoretical_price - taker_total_cost \div 2)
    ELSE Min(100 - market_state.bid,
             100 - pricing_result.theoretical_price - taker_total_cost \div 2)

\* ExecutionEngine.execute with _execute_taker
execute(market_state, pricing_result) ==
    LET side == taker_side(pricing_result)
        price == taker_price(market_state, pricing_result)
        order_id == <<"taker", market_state.market_id, time_time>>
        skipped(reason) ==
            /\ ret' = Ret("execute", FALSE, reason, 0)
            /\ UNCHANGED <<now, riskVars, stratVars, secVars, extVars>>
    IN  IF circuit_breaker_active THEN skipped("circuit_breaker")
        ELSE IF time_time - exec_last_trade_time < exec_cooldown_after_trade
        THEN skipped("cooldown")
        ELSE IF daily_stats.trades >= exec_max_daily_trades THEN skipped("daily_trades")
        ELSE IF Abs(pricing_result.edge) < Max(exec_min_edge, taker_total_cost) THEN skipped("edge")
        ELSE IF side = "buy_yes"
                  /\ price * 10000 > market_state.ask * (10000 + taker_slippage_bps)
        THEN skipped("slippage")
        ELSE /\ price > 0
             /\ orders' = Put(orders, order_id,
                              Order(order_id, market_state.market_id, side, price,
                                    Fraction(exec_max_position_size * 100, price)))
             /\ exec_last_trade_time' = time_time
             /\ daily_stats' = [daily_stats EXCEPT !.trades = @ + 1]
             /\ ret' = Ret("execute", TRUE, "", order_id)
             /\ UNCHANGED <<now, riskVars, stratVars, secVars, exceptExec,
                            exec_positions, circuit_breaker_active>>

cancel_order(order_id) ==
    IF order_id \in DOMAIN orders
    THEN /\ orders' = [orders EXCEPT ![order_id].status = CANCELLED]
         /\ ret' = Ret("cancel_order", TRUE, "", order_id)
         /\ UNCHANGED <<now, riskVars, stratVars, secVars, exceptExec,
                        exec_positions, daily_stats, exec_last_trade_time,
                        circuit_breaker_active>>
    ELSE /\ ret' = Ret("cancel_order", FALSE, "", order_id)
         /\ UNCHANGED <<now, riskVars, stratVars, secVars, extVars>>

\* market_id "" stands for None: every order
cancel_all_orders(market_id) ==
    /\ orders' = [order_id \in DOMAIN orders |->
                    IF market_id = "" \/ orders[order_id].market_id = market_id
                    THEN [orders[order_id] EXCEPT !.status = CANCELLED]
                    ELSE orders[order_id]]
    /\ ret' = Ret("cancel_all_orders", TRUE, "", market_id)
    /\ UNCHANGED <<now, riskVars, stratVars, secVars, exceptExec,
                   exec_positions, daily_stats, exec_last_trade_time,
                   circuit_breaker_active>>

RECURSIVE GCD(_, _)
GCD(a, b) == IF b = 0 THEN a ELSE GCD(b, a % b)

\* the float num / den (num >= 0, den > 0), in lowest terms
Ratio(num, den) == Fraction(num \div GCD(num, den), den \div GCD(num, den))

NoExecPosition ==
    [avg_yes_price |-> Fraction(0, 1), avg_no_price |-> Fraction(0, 1),
     yes_size |-> 0, no_size |-> 0]

\* the position of the order's market after the fill
filled_position(order, filled_price, filled_size) ==
    LET pos == IF order.market_id \in DOMAIN exec_positions
               THEN exec_positions[order.market_id]
               ELSE NoExecPosition
        new_size == pos.yes_size + filled_size
    IN  IF order.side = "buy_yes"
        THEN [pos EXCEPT
                !.avg_yes_price =
                    IF new_size > 0
                    THEN Ratio(pos.avg_yes_price.num * pos.yes_size
                                  + filled_price * filled_size * pos.avg_yes_price.den,
                               pos.avg_yes_price.den * new_size)
                    ELSE Fraction(0, 1),
                !.yes_size = new_size]
        ELSE IF order.side = "sell_yes"
        THEN [pos EXCEPT !.yes_size = @ - filled_size]
        ELSE pos

ExecutionEngine_on_fill(order_id, filled_price, filled_size) ==
    IF order_id \notin DOMAIN orders
    THEN /\ ret' = Ret("on_fill", FALSE, "", order_id)
         /\ UNCHANGED <<now, riskVars, stratVars, secVars, extVars>>
    ELSE LET order == orders[order_id]
             pos == filled_position(order, filled_price, filled_size)
         IN  /\ Abs(pos.yes_size) <= MaxYesSize
             /\ orders' = [orders EXCEPT ![order_id].status = FILLED,
                                         ![order_id].filled_price = filled_price]
             /\ exec_positions' = Put(exec_positions, order.market_id, pos)
             /\ exec_last_trade_time' = time_time
             /\ ret' = Ret("on_fill", TRUE, "", order_id)
             /\ UNCHANGED <<now, riskVars, stratVars, secVars, exceptExec,
                            daily_stats, circuit_breaker_active>>

\* pnl = yes_size * (current_yes_price - avg_yes_price) when yes_size > 0,
\* times avg_yes_price.den
update_pnl(market_id, current_yes_price) ==
    IF market_id \notin DOMAIN exec_positions
    THEN /\ ret' = Ret("update_pnl", FALSE, "", market_id)
         /\ UNCHANGED <<now, riskVars, stratVars, secVars, extVars>>
    ELSE LET pos == exec_positions[market_id]
             new_pnl == IF pos.yes_size > 0
                        THEN Fraction(pos.yes_size
                                        * (current_yes_price * pos.avg_yes_price.den
                                             - pos.avg_yes_price.num),
                                      pos.avg_yes_price.den)
                        ELSE Fraction(0, 1)
         IN  /\ daily_stats' = [daily_stats EXCEPT !.pnl = new_pnl]
             /\ circuit_breaker_active' =
                    (circuit_breaker_active
                       \/ new_pnl.num < (0 - exec_max_daily_loss * 100) * new_pnl.den)
             /\ ret' = Ret("update_pnl", TRUE, "", market_id)
             /\ UNCHANGED <<now, riskVars, stratVars, secVars, exceptExec,
                            orders, exec_positions, exec_last_trade_time>>

TheoreticalPrices == {40, 60}
Edges == {0 - 5, 1, 5}
FilledPrices == {50}
FilledSizes == {200}
YesPrices == {20, 50}
OrderIds == {<<"taker", m, Epoch + t>> : m \in Markets, t \in 0..MaxSec}

NextExec ==
    \/ \E m \in Markets, theoretical_price \in TheoreticalPrices, edge \in Edges :
           execute(MarketState(m, 50, 49, 51), PricingResult(theoretical_price, edge))
    \/ \E order_id \in OrderIds : cancel_order(order_id)
    \/ \E m \in Markets \cup {""} : cancel_all_orders(m)
    \/ \E order_id \in OrderIds, filled_price \in FilledPrices,
          filled_size \in FilledSizes :
           ExecutionEngine_on_fill(order_id, filled_price, filled_size)
    \/ \E m \in Markets, current_yes_price \in YesPrices : update_pnl(m, current_yes_price)
    \/ Tick

SpecExec == Init /\ [][NextExec]_vars

\* C39: an order starts PENDING; FILLED and CANCELLED are final: cancel_order
\* and cancel_all_orders never turn a FILLED order CANCELLED, and on_fill never
\* marks a CANCELLED order FILLED nor changes the position for it
C39_LifecycleStep ==
    /\ \A order_id \in DOMAIN orders' \ DOMAIN orders :
           orders'[order_id].status = PENDING
    /\ \A order_id \in DOMAIN orders \cap DOMAIN orders' :
           orders[order_id].status \in {FILLED, CANCELLED}
               => orders'[order_id].status = orders[order_id].status
    /\ (ret'.op = "on_fill" /\ ret'.arg \in DOMAIN orders
          /\ orders[ret'.arg].status = CANCELLED)
           => exec_positions' = exec_positions
C39_Lifecycle == [][C39_LifecycleStep]_vars

----------------------------------------------------------------------------
(* UnifiedMarketMakerStrategy.suggest_order_prices, prices in              *)
(* ten-thousandths; products of a price and a factor are in units of 1e-8 *)

buy_spread_bps == 150
sell_spread_bps == 150
buy_offset_bps == 100
sell_offset_bps == 100

\* Optional[Orderbook]: << >> is None, <<book>> a book
Orderbook(best_bid, best_ask) == [best_bid |-> best_bid, best_ask |-> best_ask]

\* round(x, 4) of a value in units of 1e-8 (no input here is a tie)
round4(x) == (x + 5000) \div 10000

\* the bid and the ask suggested for one token
suggested_quote(dynamic_offset_mode, token_price, orderbook) ==
    IF dynamic_offset_mode
    THEN LET bid == Max(1000000,
                        (IF orderbook # << >> THEN orderbook[1].best_bid
                                              ELSE token_price)
                           * (10000 - buy_offset_bps))
             \* best_ask * (1 + sell_offset), best_ask being price * 1.01 without a book
             ask == Max(1000000,
                        IF orderbook # << >>
                        THEN orderbook[1].best_ask * (10000 + sell_offset_bps)
                        ELSE token_price * ((101 * (10000 + sell_offset_bps)) \div 100))
         IN  [bid |-> round4(bid), ask |-> round4(Min(99000000, ask))]
    ELSE LET bid == Max(1000000, token_price * (10000 - buy_spread_bps))
             ask == Min(99000000, token_price * (10000 + sell_spread_bps))
         IN  [bid |-> round4(bid), ask |-> round4(Min(99000000, ask))]

suggest_order_prices(dynamic_offset_mode, yes_price, no_price, yes_orderbook, no_orderbook) ==
    LET yes == suggested_quote(dynamic_offset_mode, yes_price, yes_orderbook)
        no == suggested_quote(dynamic_offset_mode, no_price, no_orderbook)
    IN  Returned([yes_bid |-> yes.bid, yes_ask |-> yes.ask,
                  no_bid |-> no.bid, no_ask |-> no.ask,
                  source |-> IF dynamic_offset_mode THEN "DYNAMIC_OFFSET"
                                                    ELSE "FIXED_SPREAD"])

TokenPrices == {50, 98, 2000, 5000, 9902, 9999}
Orderbooks == {<< >>, <<Orderbook(1, 1)>>, <<Orderbook(4000, 6000)>>,
               <<Orderbook(10000, 10000)>>}

NextQuotes ==
    \E dynamic_offset_mode \in BOOLEAN, yes_price \in TokenPrices,
       no_price \in TokenPrices, yes_orderbook \in Orderbooks,
       no_orderbook \in Orderbooks :
        Call("suggest_order_prices",
             <<dynamic_offset_mode, yes_price, no_price, yes_orderbook, no_orderbook>>,
             suggest_order_prices(dynamic_offset_mode, yes_price, no_price,
                                  yes_orderbook, no_orderbook))

SpecQuotes == Init /\ [][NextQuotes]_vars

\* C40: suggest_order_prices never returns a crossed or out-of-range quote:
\* for each token bid <= ask and both lie in [0.01, 0.99], for all prices in
\* (0, 1), in fixed-spread and in dynamic-offset mode, with a book
\* (0 < best_bid <= best_ask <= 1) and without
C40_QuotesInRange ==
    ret.op = "suggest_order_prices" =>
        LET quote == ret.arg.result.value
        IN  /\ quote.yes_bid <= quote.yes_ask
            /\ quote.no_bid <= quote.no_ask
            /\ \A price \in {quote.yes_bid, quote.yes_ask, quote.no_bid, quote.no_ask} :
                   price >= 100 /\ price <= 9900

====
